---- MODULE Spec2Model ----
(***************************************************************************)
(* Anomaly detection engine of the Zolar backend                           *)
(* (application/anomaly-detection.ts, the Anomaly entity and the review    *)
(* operations of application/anomalies.ts).                                *)
(*                                                                         *)
(* Time is counted in whole hours since the epoch: a Date is an integer,   *)
(* getUTCHours() is ts % 24 and the 150-day lookback is 3600 hours.        *)
(* Energies are whole watt-hours; intervalHours is kept in tenths of an    *)
(* hour (the schema allows 0.1 .. 24).  The free-text fields of a finding  *)
(* (description, metadata.threshold) are not modelled.                     *)
(***************************************************************************)
EXTENDS Integers, Sequences, FiniteSets, TLC

VARIABLES
  units,      \* SolarUnit collection: unit id -> [status, capacity]
  readings,   \* EnergyGenerationRecord collection: a set of records
  now,        \* Date.now(), in hours
  anomalies,  \* Anomaly collection: sequence of stored findings (index = _id)
  run,        \* per invocation of runAnomalyDetectionForAllUnits: its position and locals
  log,        \* the calls that are over, oldest first: what each returned
  faults,     \* store operations that have thrown so far
  started,    \* detection runs started so far
  reviews,    \* review operations performed so far
  probe,      \* result of the last direct call of one detection algorithm
  invoices,   \* Invoice collection: invoice id -> [paymentStatus, paidAt]
  sessions,   \* Stripe Checkout Sessions created so far: [invoiceId, state]
  events      \* Stripe webhook events not yet delivered

vars ==
  <<units, readings, now, anomalies, run, log, faults, started, reviews, probe,
    invoices, sessions, events>>

----------------------------------------------------------------------------
(* Values and small helpers                                                *)

\* an optional field that is undefined / null
Absent == -1

LookbackDays == 150
LookbackHours == LookbackDays * 24
MIN_FROZEN_COUNT == 4

UTCHour(ts) == ts % 24
\* the superseded night boundary (18:00)
IsNighttimeFrom18(hour) == hour >= 18 \/ hour < 6
IsNighttime(hour) == hour >= 19 \/ hour < 6
\* peak hours that leave out 14:00
IsPeakHoursBefore14(hour) == hour >= 10 /\ hour < 14
IsPeakHours(hour) == hour >= 10 /\ hour <= 14
\* daytime that leaves out 18:00
IsDaytimeBefore18(hour) == hour >= 6 /\ hour < 18
IsDaytime(hour) == hour >= 6 /\ hour <= 18

\* Math.round(num / den), den > 0: the nearest integer, halves towards +infinity.
\* The quotient is exact here; the code's is an IEEE double, which can fall just
\* below an exact half (14.5 computed as 14.499999999999998): the energies
\* enumerated below give no exact half.
MathRound(num, den) == (2 * num + den) \div (2 * den)

\* for (const record of s) out.push(...F(record))
ForEach(F(_), s) ==
  LET acc[i \in 0..Len(s)] == IF i = 0 THEN << >> ELSE acc[i - 1] \o F(s[i])
  IN  acc[Len(s)]

----------------------------------------------------------------------------
(* ReadingWindowLoader: EnergyGenerationRecord.find({solarUnitId,          *)
(* timestamp: {$gte: lookbackDate}}).sort({timestamp: +-1})                *)

LookbackDate(t) == t - LookbackHours

FindRecords(db, solarUnitId, t) ==
  {r \in db : r.unit = solarUnitId /\ r.ts >= LookbackDate(t)}

\* ties on the timestamp keep the store's natural (insertion, id) order
RECURSIVE SortAsc(_)
SortAsc(S) ==
  IF S = {} THEN << >>
  ELSE LET m == CHOOSE x \in S :
                  \A y \in S : x.ts < y.ts \/ (x.ts = y.ts /\ x.id <= y.id)
       IN  <<m>> \o SortAsc(S \ {m})

RECURSIVE SortDesc(_)
SortDesc(S) ==
  IF S = {} THEN << >>
  ELSE LET m == CHOOSE x \in S :
                  \A y \in S : x.ts > y.ts \/ (x.ts = y.ts /\ x.id <= y.id)
       IN  <<m>> \o SortDesc(S \ {m})

----------------------------------------------------------------------------
(* The detection algorithms.  readOk = FALSE is a store read that throws:  *)
(* every algorithm catches it and returns [].                              *)

PointFinding(solarUnitId, type, severity, record, expected, actual, deviation) ==
  [unit |-> solarUnitId, type |-> type, severity |-> severity,
   start |-> record.ts, end |-> record.ts, recIds |-> <<record.id>>,
   expected |-> expected, actual |-> actual, deviation |-> deviation]

NighttimeOfRecord(solarUnitId, record) ==
  IF IsNighttime(UTCHour(record.ts)) /\ record.energy > 10
  THEN <<PointFinding(solarUnitId, "NIGHTTIME_GENERATION", "CRITICAL", record,
                      0, record.energy, 100)>>
  ELSE << >>

detectNighttimeGeneration(db, solarUnitId, t, readOk) ==
  IF ~readOk THEN << >>
  ELSE ForEach(LAMBDA r : NighttimeOfRecord(solarUnitId, r),
               SortDesc(FindRecords(db, solarUnitId, t)))

ZeroGenerationOfRecord(solarUnitId, record) ==
  IF IsPeakHours(UTCHour(record.ts)) /\ record.energy = 0
  THEN <<PointFinding(solarUnitId, "ZERO_GENERATION_CLEAR_SKY", "CRITICAL", record,
                      200, 0, 100)>>
  ELSE << >>

detectZeroGenerationClearSky(db, solarUnitId, t, readOk) ==
  IF ~readOk THEN << >>
  ELSE ForEach(LAMBDA r : ZeroGenerationOfRecord(solarUnitId, r),
               SortDesc(FindRecords(db, solarUnitId, t)))

\* record.intervalHours || 2, in tenths of an hour
IntervalTenths(record) ==
  IF record.interval = Absent \/ record.interval = 0 THEN 20 ELSE record.interval

\* solarUnit.capacity * intervalHours, in tenths of a watt-hour
MaxEnergyTenths(capacity, record) == capacity * IntervalTenths(record)

\* a reading exactly at the maximum reported too
ThresholdOfRecordInclusive(solarUnitId, capacity, record) ==
  LET max10 == capacity * (IF record.interval = Absent \/ record.interval = 0
                           THEN 20 ELSE record.interval)
  IN  IF 10 * record.energy >= max10
      THEN <<PointFinding(solarUnitId, "ENERGY_EXCEEDING_THRESHOLD", "CRITICAL",
                          record, max10 \div 10, record.energy,
                          MathRound(100 * (10 * record.energy - max10), max10))>>
      ELSE << >>

ThresholdOfRecord(solarUnitId, capacity, record) ==
  LET max10 == MaxEnergyTenths(capacity, record)
  IN  IF 10 * record.energy > max10
      THEN <<PointFinding(solarUnitId, "ENERGY_EXCEEDING_THRESHOLD", "CRITICAL",
                          record, max10 \div 10, record.energy,
                          MathRound(100 * (10 * record.energy - max10), max10))>>
      ELSE << >>

detectEnergyExceedingThreshold(us, db, solarUnitId, t, readOk) ==
  IF ~readOk THEN << >>
  ELSE IF solarUnitId \notin DOMAIN us THEN << >>
  ELSE ForEach(LAMBDA r : ThresholdOfRecord(solarUnitId, us[solarUnitId].capacity, r),
               SortDesc(FindRecords(db, solarUnitId, t)))

\* record.cloudCover || 0
CloudCoverOrZero(record) == IF record.cc = Absent THEN 0 ELSE record.cc

WeatherMismatchOfRecord(solarUnitId, record) ==
  LET hour == UTCHour(record.ts)
      cloudCover == CloudCoverOrZero(record)
      high == IF (record.wc = "rain" \/ (record.wc = "overcast" /\ cloudCover > 80))
                 /\ record.energy > 500
              THEN <<PointFinding(solarUnitId, "HIGH_GENERATION_BAD_WEATHER", "WARNING",
                                  record, 200, record.energy,
                                  MathRound(100 * (record.energy - 200), 200))>>
              ELSE << >>
      low  == IF record.wc = "clear" /\ cloudCover < 20 /\ IsPeakHours(hour)
                 /\ record.energy < 200
              THEN <<PointFinding(solarUnitId, "LOW_GENERATION_CLEAR_WEATHER", "WARNING",
                                  record, 400, record.energy,
                                  MathRound(100 * (record.energy - 400), 400))>>
              ELSE << >>
  IN  IF ~IsDaytime(hour) THEN << >> ELSE high \o low

\* the query adds weatherCondition: {$exists: true}
detectWeatherPerformanceMismatch(db, solarUnitId, t, readOk) ==
  IF ~readOk THEN << >>
  ELSE ForEach(LAMBDA r : WeatherMismatchOfRecord(solarUnitId, r),
               SortDesc({r \in FindRecords(db, solarUnitId, t) : r.wc # "none"}))

\* a comparison of the weather conditions alone
hasWeatherChangedConditionOnly(records) ==
  IF Len(records) < 2 THEN FALSE
  ELSE Cardinality({records[i].wc :
                      i \in {j \in 1..Len(records) : records[j].wc # "none"}}) > 1

hasWeatherChanged(records) ==
  IF Len(records) < 2 THEN FALSE
  ELSE LET weatherConditions ==
             {records[i].wc : i \in {j \in 1..Len(records) : records[j].wc # "none"}}
           cloudCovers ==
             {records[i].cc : i \in {j \in 1..Len(records) : records[j].cc # Absent}}
       IN  Cardinality(weatherConditions) > 1 \/ Cardinality(cloudCovers) > 1

AllNighttimeZeros(frozenSequence) ==
  \A i \in 1..Len(frozenSequence) :
     IsNighttime(UTCHour(frozenSequence[i].ts)) /\ frozenSequence[i].energy = 0

\* the block run when a sequence ends (value change, or end of the scan)
FrozenOfSequence(solarUnitId, frozenSequence, previousValue) ==
  IF Len(frozenSequence) >= MIN_FROZEN_COUNT /\ ~AllNighttimeZeros(frozenSequence)
  THEN <<[unit |-> solarUnitId, type |-> "FROZEN_GENERATION", severity |-> "WARNING",
          start |-> frozenSequence[1].ts,
          end |-> frozenSequence[Len(frozenSequence)].ts,
          recIds |-> [i \in 1..Len(frozenSequence) |-> frozenSequence[i].id],
          expected |-> Absent, actual |-> previousValue,
          deviation |-> IF hasWeatherChanged(frozenSequence) THEN 100 ELSE 50]>>
  ELSE << >>

\* one iteration of the scan loop over the loop state
\* [seq: frozenSequence, prev: previousValue, hasPrev: previousValue !== null, out]
FrozenStep(solarUnitId, st, record) ==
  IF st.hasPrev /\ record.energy = st.prev
  THEN [st EXCEPT !.seq = Append(st.seq, record)]
  ELSE [seq |-> <<record>>, prev |-> record.energy, hasPrev |-> TRUE,
        out |-> st.out \o FrozenOfSequence(solarUnitId, st.seq, st.prev)]

\* the scan without the check of the last sequence after the loop
FrozenScanNoTail(solarUnitId, recentRecords) ==
  LET st[i \in 0..Len(recentRecords)] ==
        IF i = 0
        THEN [seq |-> << >>, prev |-> Absent, hasPrev |-> FALSE, out |-> << >>]
        ELSE FrozenStep(solarUnitId, st[i - 1], recentRecords[i])
  IN  st[Len(recentRecords)].out

FrozenScan(solarUnitId, recentRecords) ==
  LET st[i \in 0..Len(recentRecords)] ==
        IF i = 0
        THEN [seq |-> << >>, prev |-> Absent, hasPrev |-> FALSE, out |-> << >>]
        ELSE FrozenStep(solarUnitId, st[i - 1], recentRecords[i])
      last == st[Len(recentRecords)]
  IN  IF last.hasPrev
      THEN last.out \o FrozenOfSequence(solarUnitId, last.seq, last.prev)
      ELSE last.out

detectFrozenGeneration(db, solarUnitId, t, readOk) ==
  IF ~readOk THEN << >>
  ELSE FrozenScan(solarUnitId, SortAsc(FindRecords(db, solarUnitId, t)))

----------------------------------------------------------------------------
(* The finding store and the recorder (AnomalyDetector.saveAnomalies)      *)

\* anomalySchema.type enum
AnomalyTypeEnum ==
  {"NIGHTTIME_GENERATION", "ZERO_GENERATION_CLEAR_SKY", "OVERPRODUCTION",
   "HIGH_GENERATION_BAD_WEATHER", "LOW_GENERATION_CLEAR_WEATHER",
   "SUDDEN_PRODUCTION_DROP", "ERRATIC_OUTPUT"}

AnomalySeverityEnum == {"CRITICAL", "WARNING", "INFO"}

\* mongoose validation run by Anomaly.create: a value outside an enum throws
SchemaAccepts(anomaly) ==
  anomaly.type \in AnomalyTypeEnum /\ anomaly.severity \in AnomalySeverityEnum

\* an existence check that counts a finding of any status as a match
FindOneAnyStatus(store, anomaly) ==
  \E i \in 1..Len(store) :
     /\ store[i].unit = anomaly.unit
     /\ store[i].type = anomaly.type
     /\ store[i].start = anomaly.start

\* the existence check that looks at OPEN findings only
FindOneOpenOnly(store, anomaly) ==
  \E i \in 1..Len(store) :
     /\ store[i].unit = anomaly.unit
     /\ store[i].type = anomaly.type
     /\ store[i].start = anomaly.start
     /\ store[i].status = "OPEN"

\* the existence check that compares the period start with the period end of
\* the stored finding's successor day (never equal): every finding is new
FindOneNever(store, anomaly) ==
  \E i \in 1..Len(store) :
     /\ store[i].unit = anomaly.unit
     /\ store[i].type = anomaly.type
     /\ store[i].start = anomaly.start + 24
     /\ store[i].status \in {"OPEN", "ACKNOWLEDGED"}

\* Anomaly.findOne({solarUnitId, type, "affectedPeriod.start",
\*                  status: {$in: ["OPEN", "ACKNOWLEDGED"]}}) found a document
FindOneExisting(store, anomaly) ==
  \E i \in 1..Len(store) :
     /\ store[i].unit = anomaly.unit
     /\ store[i].type = anomaly.type
     /\ store[i].start = anomaly.start
     /\ store[i].status \in {"OPEN", "ACKNOWLEDGED"}

\* the document Anomaly.create stores: status and detectedAt take their defaults
NewDocument(anomaly, t) ==
  [unit |-> anomaly.unit, type |-> anomaly.type, severity |-> anomaly.severity,
   start |-> anomaly.start, end |-> anomaly.end, recIds |-> anomaly.recIds,
   expected |-> anomaly.expected, actual |-> anomaly.actual,
   deviation |-> anomaly.deviation, status |-> "OPEN", detectedAt |-> t]

----------------------------------------------------------------------------
(* runAnomalyDetectionForAllUnits                                          *)

Runs == {"cron", "manual"}    \* the scheduled trigger and the manual trigger

MaxRuns == 2      \* detection runs started in one behaviour
MaxFaults == 1    \* store operations that throw in one behaviour
MaxTicks == 1     \* hours the clock advances in one behaviour
MaxReviews == 2   \* review operations in one behaviour

NumUnits == 2     \* solar units
BaseDay == 1      \* day of the oldest readings

UnitIds == 1..NumUnits
Capacity == 10 * 100

\* the clock starts with the lookback boundary at 08:00 of day BaseDay
RunNow == LookbackHours + 24 * BaseDay + 8

\* a call that is not in progress; faulted and storeBefore record, for the call
\* in progress, the units with a read that threw and the store size at the start
IdleRun ==
  [pc |-> "idle", unitList |-> << >>, unitIdx |-> 0, detected |-> << >>,
   anomIdx |-> 0, savedCount |-> 0, totalDetected |-> 0, totalSaved |-> 0,
   faulted |-> {}, storeBefore |-> 0]

NoProbe == [algo |-> "none", ok |-> TRUE, out |-> << >>]

\* no invoice, no checkout session, no webhook event
NoPayments == invoices = << >> /\ sessions = << >> /\ events = {}

\* a store operation succeeds, or throws while the fault budget lasts
Outcomes == IF faults < MaxFaults THEN BOOLEAN ELSE {TRUE}
Charge(ok) == faults' = (IF ok THEN faults ELSE faults + 1)

\* unit documents in the store's order
RECURSIVE UnitSeq(_)
UnitSeq(S) ==
  IF S = {} THEN << >>
  ELSE LET m == CHOOSE x \in S : TRUE IN <<m>> \o UnitSeq(S \ {m})

\* a listing without the status filter
FindAllUnits(us) == UnitSeq(DOMAIN us)

\* SolarUnit.find({status: "ACTIVE"})
FindActiveUnits(us) == UnitSeq({u \in DOMAIN us : us[u].status = "ACTIVE"})

CurrentUnit(r) == run[r].unitList[run[r].unitIdx]
CurrentAnomaly(r) == run[r].detected[run[r].anomIdx]

\* an aggregate that reports the detected total as the saved one
ReturnedDetectedAsSaved(rs, storeAfter) ==
  [status |-> "returned", unitsProcessed |-> Len(rs.unitList),
   anomaliesDetected |-> rs.totalDetected, anomaliesSaved |-> rs.totalDetected,
   faulted |-> rs.faulted, storeBefore |-> rs.storeBefore, storeAfter |-> storeAfter]

\* the return statement: the aggregate of the call
Returned(rs, storeAfter) ==
  [status |-> "returned", unitsProcessed |-> Len(rs.unitList),
   anomaliesDetected |-> rs.totalDetected, anomaliesSaved |-> rs.totalSaved,
   faulted |-> rs.faulted, storeBefore |-> rs.storeBefore, storeAfter |-> storeAfter]

\* catch (error) { console.error(...); throw error; }: no value is returned
Rethrown(rs, storeAfter) ==
  [status |-> "thrown", unitsProcessed |-> 0,
   anomaliesDetected |-> 0, anomaliesSaved |-> 0,
   faulted |-> rs.faulted, storeBefore |-> rs.storeBefore, storeAfter |-> storeAfter]

\* a caller that awaits the call outside any try block
CallerCatchesNever(r) == FALSE

\* both callers await the call inside try/catch: the cron callback logs the
\* error, the trigger handler passes it to next(error)
CallerCatches(r) == TRUE

\* the caller after a rethrown error: ready for its next invocation, or, with
\* the rejection unhandled, gone with the process
AfterThrow(r) == IF CallerCatches(r) THEN IdleRun ELSE [IdleRun EXCEPT !.pc = "down"]

\* the call moves to the state rs, or is over
Advance(r, rs, storeAfter) ==
  IF rs.pc = "return"
  THEN /\ run' = [run EXCEPT ![r] = IdleRun]
       /\ log' = Append(log, Returned(rs, storeAfter))
  ELSE IF rs.pc = "throw"
  THEN /\ run' = [run EXCEPT ![r] = AfterThrow(r)]
       /\ log' = Append(log, Rethrown(rs, storeAfter))
  ELSE /\ run' = [run EXCEPT ![r] = rs]
       /\ UNCHANGED log

\* the caller (cron callback or trigger handler) invokes the function; its first
\* await lists the active units.  A throw is logged and rethrown to the caller.
StartRun(r, sequential) ==
  /\ run[r].pc = "idle"
  /\ sequential => \A q \in Runs : run[q].pc = "idle"
  /\ started < MaxRuns
  /\ started' = started + 1
  /\ \E ok \in Outcomes :
       /\ Charge(ok)
       /\ LET solarUnits == FindActiveUnits(units)
              rs == [IdleRun EXCEPT !.unitList = IF ok THEN solarUnits ELSE << >>,
                                    !.unitIdx = 1,
                                    !.storeBefore = Len(anomalies),
                                    !.pc = IF ~ok THEN "throw"
                                           ELSE IF solarUnits = << >> THEN "return"
                                           ELSE "detect"]
          IN  Advance(r, rs, Len(anomalies))
  /\ UNCHANGED <<units, readings, now, anomalies, reviews, probe, invoices, sessions, events>>

\* the state of the call after the save loop has handled anomaly number anomIdx
\* with `saved` findings saved for the unit so far: the next anomaly, or
\* totalSaved += savedCount and the next unit, or the return of the aggregate
AfterAnomaly(rs, saved) ==
  IF rs.anomIdx < Len(rs.detected)
  THEN [rs EXCEPT !.pc = "check", !.anomIdx = @ + 1, !.savedCount = saved]
  ELSE IF rs.unitIdx < Len(rs.unitList)
  THEN [rs EXCEPT !.pc = "detect", !.unitIdx = @ + 1, !.detected = << >>,
                  !.anomIdx = 0, !.savedCount = 0, !.totalSaved = @ + saved]
  ELSE [rs EXCEPT !.pc = "return", !.savedCount = 0, !.totalSaved = @ + saved]

\* detectAnomalies(unit): the five algorithms in turn, each with its own store
\* read that may throw (ok[k] = FALSE).  The reads only read the reading store,
\* so the five awaits are taken as one step.
Algorithms == 1..5

detectAnomalies(us, db, solarUnitId, t, ok) ==
  detectNighttimeGeneration(db, solarUnitId, t, ok[1])
    \o detectZeroGenerationClearSky(db, solarUnitId, t, ok[2])
    \o detectEnergyExceedingThreshold(us, db, solarUnitId, t, ok[3])
    \o detectWeatherPerformanceMismatch(db, solarUnitId, t, ok[4])
    \o detectFrozenGeneration(db, solarUnitId, t, ok[5])

ThrownReads(ok) == Cardinality({k \in Algorithms : ~ok[k]})

\* a read error that gets past the algorithms
ReadErrorEscapesUncaught(ok) == \E k \in Algorithms : ~ok[k]

\* every algorithm wraps its reads in try/catch and returns [], and so does
\* detectAnomalies: no read error reaches the loop over the units
ReadErrorEscapes(ok) == FALSE

\* the loop body of runAnomalyDetectionForAllUnits up to the call of
\* saveAnomalies: detectAnomalies, then totalDetected += anomalies.length
DetectAnomalies(r) ==
  /\ run[r].pc = "detect"
  /\ \E ok \in [Algorithms -> BOOLEAN] :
       /\ faults + ThrownReads(ok) <= MaxFaults
       /\ faults' = faults + ThrownReads(ok)
       /\ LET all == detectAnomalies(units, readings, CurrentUnit(r), now, ok)
              rs  == [run[r] EXCEPT
                        !.detected = all, !.anomIdx = 0, !.savedCount = 0,
                        !.totalDetected = @ + Len(all),
                        !.faulted = IF ThrownReads(ok) > 0
                                    THEN @ \cup {CurrentUnit(r)} ELSE @]
          IN  IF ReadErrorEscapes(ok)
              THEN Advance(r, [rs EXCEPT !.pc = "throw"], Len(anomalies))
              ELSE Advance(r, AfterAnomaly(rs, 0), Len(anomalies))
  /\ UNCHANGED <<units, readings, now, anomalies, started, reviews, probe, invoices, sessions, events>>

\* saveAnomalies: await Anomaly.findOne(...); a throw is caught per anomaly
CheckExisting(r) ==
  /\ run[r].pc = "check"
  /\ \E ok \in Outcomes :
       /\ Charge(ok)
       /\ IF ok /\ ~FindOneExisting(anomalies, CurrentAnomaly(r))
          THEN Advance(r, [run[r] EXCEPT !.pc = "create"], Len(anomalies))
          ELSE Advance(r, AfterAnomaly(run[r], run[r].savedCount), Len(anomalies))
  /\ UNCHANGED <<units, readings, now, anomalies, started, reviews, probe, invoices, sessions, events>>

\* an insert is refused when an open or acknowledged finding has the same key
InsertAllowedUniqueKey(store, anomaly) == ~FindOneExisting(store, anomaly)

\* the collection has no unique index and the save loop no transaction: an
\* insert is not checked against the documents present
InsertAllowed(store, anomaly) == TRUE

\* saveAnomalies: await Anomaly.create(anomaly); savedCount++ (a throw, a
\* validation error included, is caught per anomaly)
CreateAnomaly(r) ==
  /\ run[r].pc = "create"
  /\ \E ok \in Outcomes :
       /\ Charge(ok)
       /\ IF /\ ok
             /\ SchemaAccepts(CurrentAnomaly(r))
             /\ InsertAllowed(anomalies, CurrentAnomaly(r))
          THEN /\ anomalies' = Append(anomalies, NewDocument(CurrentAnomaly(r), now))
               /\ Advance(r, AfterAnomaly(run[r], run[r].savedCount + 1),
                          Len(anomalies) + 1)
          ELSE /\ UNCHANGED anomalies
               /\ Advance(r, AfterAnomaly(run[r], run[r].savedCount), Len(anomalies))
  /\ UNCHANGED <<units, readings, now, started, reviews, probe, invoices, sessions, events>>

----------------------------------------------------------------------------
(* The review operations (application/anomalies.ts) and the clock          *)

\* acknowledgeAnomaly by a caller who passes the not-found and ownership checks
AcknowledgeAnomaly(id) ==
  /\ id \in 1..Len(anomalies)
  /\ reviews < MaxReviews
  /\ reviews' = reviews + 1
  /\ anomalies' = [anomalies EXCEPT ![id].status = "ACKNOWLEDGED"]
  /\ UNCHANGED <<units, readings, now, run, log, faults, started, probe, invoices, sessions, events>>

\* resolveAnomaly by a caller who passes the not-found and ownership checks
ResolveAnomaly(id) ==
  /\ id \in 1..Len(anomalies)
  /\ reviews < MaxReviews
  /\ reviews' = reviews + 1
  /\ anomalies' = [anomalies EXCEPT ![id].status = "RESOLVED"]
  /\ UNCHANGED <<units, readings, now, run, log, faults, started, probe, invoices, sessions, events>>

Tick ==
  /\ now < RunNow + MaxTicks
  /\ now' = now + 1
  /\ UNCHANGED <<units, readings, anomalies, run, log, faults, started, reviews, probe, invoices, sessions, events>>

----------------------------------------------------------------------------
(* The system: a reading store per unit, detection runs, review, the clock *)

StoredReading(u, k, hour, energy, wc, cc) ==
  [id |-> 10 * u + k, unit |-> u, ts |-> 24 * BaseDay + hour, energy |-> energy,
   interval |-> 20, wc |-> wc, cc |-> cc]

\* the reading stores a unit may hold
ProfileNames == {"quiet", "night", "over", "clearzero", "frozen"}
Profile(u, name) ==
  CASE name = "quiet"     -> {StoredReading(u, 1, 12, 300, "none", Absent)}
    [] name = "night"     -> {StoredReading(u, 1, 22, 50, "none", Absent)}
    [] name = "over"      -> {StoredReading(u, 1, 12, 2500, "none", Absent)}
    [] name = "clearzero" -> {StoredReading(u, 1, 12, 0, "clear", 10)}
    [] name = "frozen"    -> {StoredReading(u, k, 6 + 2 * k, 300, "none", Absent)
                                : k \in 1..5}

Init ==
  /\ \E st \in {"ACTIVE", "INACTIVE", "MAINTENANCE"} :
       units = [u \in UnitIds |->
                  [status |-> IF u = NumUnits THEN st ELSE "ACTIVE", capacity |-> Capacity]]
  /\ \E name \in ProfileNames :
       readings = UNION {Profile(u, IF u = 1 THEN name ELSE "night") : u \in UnitIds}
  /\ now = RunNow
  /\ anomalies = << >>
  /\ run = [r \in Runs |-> IdleRun]
  /\ log = << >>
  /\ faults = 0
  /\ started = 0
  /\ reviews = 0
  /\ probe = NoProbe
  /\ NoPayments

RunStep(r) ==
  \/ DetectAnomalies(r)
  \/ CheckExisting(r)
  \/ CreateAnomaly(r)

\* runs that do not overlap: the scheduler's steady state
Next ==
  \/ \E r \in Runs : StartRun(r, TRUE)
  \/ \E r \in Runs : RunStep(r)
  \/ \E id \in 1..Len(anomalies) : AcknowledgeAnomaly(id)
  \/ \E id \in 1..Len(anomalies) : ResolveAnomaly(id)
  \/ Tick

Spec == Init /\ [][Next]_vars

\* the scheduler keeps firing and a call in flight takes its next step
\* (the readings are unchanged: no review and no clock step in between)
NextLive ==
  \/ \E r \in Runs : StartRun(r, TRUE)
  \/ \E r \in Runs : RunStep(r)

\* unit 1 holds one reading (one of the single-reading profiles), the others
\* a night reading
InitLive ==
  /\ \E st \in {"ACTIVE", "INACTIVE", "MAINTENANCE"} :
       units = [u \in UnitIds |->
                  [status |-> IF u = NumUnits THEN st ELSE "ACTIVE", capacity |-> Capacity]]
  /\ \E name \in ProfileNames \ {"frozen"} :
       readings = UNION {Profile(u, IF u = 1 THEN name ELSE "night") : u \in UnitIds}
  /\ now = RunNow
  /\ anomalies = << >>
  /\ run = [r \in Runs |-> IdleRun]
  /\ log = << >>
  /\ faults = 0
  /\ started = 0
  /\ reviews = 0
  /\ probe = NoProbe
  /\ NoPayments

SpecLive ==
  /\ InitLive /\ [][NextLive]_vars
  /\ WF_vars(\E r \in Runs : StartRun(r, TRUE))
  /\ WF_vars(\E r \in Runs : RunStep(r))

\* a manual trigger may start while a scheduled run is in flight (the clock
\* is held still: the overlap is a matter of seconds)
NextOverlap ==
  \/ \E r \in Runs : StartRun(r, FALSE)
  \/ \E r \in Runs : RunStep(r)
  \/ \E id \in 1..Len(anomalies) : AcknowledgeAnomaly(id)
  \/ \E id \in 1..Len(anomalies) : ResolveAnomaly(id)

SpecOverlap == Init /\ [][NextOverlap]_vars

----------------------------------------------------------------------------
(* Direct calls of one algorithm on a bounded family of reading stores     *)

MaxLen == 5        \* readings of a mixed night/day store
MaxLongLen == 8    \* readings of an all-daytime store
ProbeUnit == NumUnits
ProbeCapacity == 10 * 100

Reading(id, ts, energy, interval, wc, cc) ==
  [id |-> id, unit |-> ProbeUnit, ts |-> ts, energy |-> energy,
   interval |-> interval, wc |-> wc, cc |-> cc]

\* one reading a day, day BaseDay + i, at a chosen hour, with a chosen energy
MixedStores ==
  UNION {{ {Reading(i, 24 * (BaseDay + i) + s[i][1], s[i][2], 20, "none", Absent)
             : i \in 1..n}
           : s \in [1..n -> {2, 12} \X {0, 300}]}
         : n \in 0..MaxLen}

LongStores ==
  UNION {{ {Reading(i, 24 * (BaseDay + i) + 12, e[i], 20, "none", Absent) : i \in 1..n}
           : e \in [1..n -> {0, 300}]}
         : n \in (MaxLen + 1)..MaxLongLen}

RichHours == {0, 5, 6, 9, 10, 14, 15, 18, 19, 23}
RichEnergies == {0, 10, 11, 199, 500, 501, 1000, 1001, 2000, 2001, 2312, 2500}
RichIntervals == {Absent, 5, 10, 20}
RichWeather == {<<"none", Absent>>, <<"clear", 10>>, <<"rain", 90>>}

SingleStores ==
  {{Reading(1, 24 * (BaseDay + 1) + h, e, iv, w[1], w[2])} :
     h \in RichHours, e \in RichEnergies, iv \in RichIntervals, w \in RichWeather}

PairStores ==
  {{Reading(1, 24 * (BaseDay + 1) + a[1], a[2], 20, "none", Absent),
    Reading(2, 24 * (BaseDay + 2) + b[1], b[2], Absent, "clear", 10)} :
     a \in {2, 12, 19} \X {0, 11, 2500}, b \in {2, 12, 19} \X {0, 11, 2500}}

\* weatherCondition and cloudCover as stored: no condition, a condition without
\* cloud cover, and covers on both sides of 20 and of 80
WeatherChoices ==
  {<<"none", 90>>, <<"rain", Absent>>, <<"rain", 10>>, <<"overcast", Absent>>,
   <<"overcast", 80>>, <<"overcast", 81>>, <<"clear", Absent>>, <<"clear", 19>>,
   <<"clear", 20>>, <<"partly_cloudy", 90>>}
WeatherHours == {5, 6, 9, 10, 14, 15, 18, 19}
WeatherEnergies == {0, 199, 200, 500, 501}

WeatherStores ==
  {{Reading(1, 24 * (BaseDay + 1) + h, e, 20, w[1], w[2])} :
     h \in WeatherHours, e \in WeatherEnergies, w \in WeatherChoices}

WeatherPairStores ==
  {{Reading(1, 24 * (BaseDay + 1) + 12, a[1], 20, a[2], a[3]),
    Reading(2, 24 * (BaseDay + 2) + 12, b[1], 20, b[2], b[3])} :
     a \in {<<501, "rain", Absent>>, <<199, "clear", 10>>, <<501, "overcast", 80>>},
     b \in {<<501, "overcast", 81>>, <<199, "clear", 10>>, <<300, "rain", 90>>}}

\* four readings of 300 Wh at noon on consecutive days, each with its own
\* weather snapshot, alone or followed by a reading of 500 Wh
StreakWeather == {<<"none", Absent>>, <<"clear", 10>>, <<"clear", 30>>, <<"rain", 10>>}
FrozenWeatherStores ==
  {{Reading(i, 24 * (BaseDay + i) + 12, 300, 20, w[i][1], w[i][2]) : i \in 1..MIN_FROZEN_COUNT}
     \cup tail :
     w \in [1..MIN_FROZEN_COUNT -> StreakWeather],
     tail \in {{}, {Reading(MIN_FROZEN_COUNT + 1, 24 * (BaseDay + MIN_FROZEN_COUNT + 1) + 12,
                             500, 20, "clear", 10)}}}

ProbeStores ==
  MixedStores \cup LongStores \cup SingleStores \cup PairStores
    \cup WeatherStores \cup WeatherPairStores \cup FrozenWeatherStores

\* the lookback boundary falls on day BaseDay + 1, or one day later
ProbeNows == {LookbackHours + 24 * (BaseDay + 1), LookbackHours + 24 * (BaseDay + 2)}

InitDetect ==
  /\ units = [u \in {ProbeUnit} |-> [status |-> "ACTIVE", capacity |-> ProbeCapacity]]
  /\ readings \in ProbeStores
  /\ now \in ProbeNows
  /\ anomalies = << >>
  /\ run = [r \in Runs |-> IdleRun]
  /\ log = << >>
  /\ faults = 0
  /\ started = 0
  /\ reviews = 0
  /\ probe = NoProbe
  /\ NoPayments

CallNighttime ==
  /\ \E ok \in BOOLEAN :
       probe' = [algo |-> "nighttime", ok |-> ok,
                 out |-> detectNighttimeGeneration(readings, ProbeUnit, now, ok)]
  /\ UNCHANGED <<units, readings, now, anomalies, run, log, faults, started, reviews, invoices, sessions, events>>

CallZeroGeneration ==
  /\ \E ok \in BOOLEAN :
       probe' = [algo |-> "zero", ok |-> ok,
                 out |-> detectZeroGenerationClearSky(readings, ProbeUnit, now, ok)]
  /\ UNCHANGED <<units, readings, now, anomalies, run, log, faults, started, reviews, invoices, sessions, events>>

CallThreshold ==
  /\ \E ok \in BOOLEAN :
       probe' = [algo |-> "threshold", ok |-> ok,
                 out |-> detectEnergyExceedingThreshold(units, readings, ProbeUnit, now, ok)]
  /\ UNCHANGED <<units, readings, now, anomalies, run, log, faults, started, reviews, invoices, sessions, events>>

CallWeatherMismatch ==
  /\ \E ok \in BOOLEAN :
       probe' = [algo |-> "weather", ok |-> ok,
                 out |-> detectWeatherPerformanceMismatch(readings, ProbeUnit, now, ok)]
  /\ UNCHANGED <<units, readings, now, anomalies, run, log, faults, started, reviews, invoices, sessions, events>>

CallFrozen ==
  /\ \E ok \in BOOLEAN :
       probe' = [algo |-> "frozen", ok |-> ok,
                 out |-> detectFrozenGeneration(readings, ProbeUnit, now, ok)]
  /\ UNCHANGED <<units, readings, now, anomalies, run, log, faults, started, reviews, invoices, sessions, events>>

NextDetect ==
  \/ CallNighttime \/ CallZeroGeneration \/ CallThreshold
  \/ CallWeatherMismatch \/ CallFrozen

SpecDetect == InitDetect /\ [][NextDetect]_vars

----------------------------------------------------------------------------
(* Analytics (application/analytics.ts) and the weather impact score       *)

\* new Date(ts).toISOString().split('T')[0]: the UTC date as a fixed-width
\* string of digits, here the three decimal digits of the day number
DateKey(ts) ==
  LET d == ts \div 24 IN <<(d \div 100) % 10, (d \div 10) % 10, d % 10>>

\* a.localeCompare(b) < 0 for two date strings: the first differing digit decides
LocaleCompareLess(a, b) ==
  \E i \in 1..Len(a) :
     /\ i <= Len(b)
     /\ a[i] < b[i]
     /\ \A j \in 1..(i - 1) : a[j] = b[j]

\* array.sort((a, b) => a.date.localeCompare(b.date)) on entries of distinct dates
RECURSIVE SortByDate(_)
SortByDate(S) ==
  IF S = {} THEN << >>
  ELSE LET m == CHOOSE x \in S : \A y \in S \ {x} : LocaleCompareLess(x.date, y.date)
       IN  <<m>> \o SortByDate(S \ {m})

\* array.reduce((sum, x) => sum + x, 0) over a sequence of numbers
SumSeq(s) ==
  LET acc[i \in 0..Len(s)] == IF i = 0 THEN 0 ELSE acc[i - 1] + s[i]
  IN  acc[Len(s)]

\* the sum of a field over records, a record without the field adding nothing
Present(v) == IF v = Absent THEN 0 ELSE v

\* calculateSolarImpact on the day's averages; every argument is the sum of a
\* field over `count` readings, so that avg <= c is sum <= c * count
calculateSolarImpact(cloudCover, precipitation, solarIrradiance, temperature, windSpeed, count) ==
  LET cloudImpact == IF cloudCover >= 0 /\ cloudCover <= 20 * count THEN 0
                     ELSE IF cloudCover <= 50 * count THEN -20
                     ELSE IF cloudCover <= 80 * count THEN -40
                     ELSE -60
      rainImpact == IF precipitation > 0 THEN -30 ELSE 0
      irradianceBoost == IF solarIrradiance > 800 * count THEN 20
                         ELSE IF solarIrradiance >= 600 * count THEN 10
                         ELSE 0
      tempImpact == IF temperature > 35 * count THEN -10 ELSE 0
      windBoost == IF windSpeed > 15 * count THEN 5 ELSE 0
      score == 100 + cloudImpact + rainImpact + irradianceBoost + tempImpact + windBoost
  IN  IF score < 0 THEN 0 ELSE IF score > 100 THEN 100 ELSE score

\* calculateExpectedEnergy(capacity / 1000, weatherScore) in hundredths of a
\* kWh: Math.round(capacityKw * 5.5 * (weatherScore / 100) * 100)
calculateExpectedEnergy(capacity, weatherScore) ==
  MathRound(capacity * 55 * weatherScore, 10000)

\* Math.round((data.actualEnergy / expectedEnergy) * 100): the day's sum of
\* energyGenerated, as stored, over the expected energy in kWh
PerformanceRatio(actualEnergy, expectedHundredths) ==
  IF expectedHundredths > 0 THEN MathRound(actualEnergy * 10000, expectedHundredths) ELSE 0

\* record.energy ?? record.energyGenerated ?? 0: no code writes the optional
\* alias `energy`, and energyGenerated is required; the model's field `energy`
\* is energyGenerated
EnergyValue(record) == record.energy

\* one entry of dailyData for the readings of one date
DailyPerformance(capacity, date, records) ==
  LET rs == SortAsc(records)
      count == Len(rs)
      actualEnergy == SumSeq([i \in 1..count |-> EnergyValue(rs[i])])
      totalCloudCover == SumSeq([i \in 1..count |-> Present(rs[i].cc)])
      totalPrecipitation == SumSeq([i \in 1..count |-> Present(rs[i].precip)])
      totalTemp == SumSeq([i \in 1..count |-> Present(rs[i].temp)])
      totalIrradiance == SumSeq([i \in 1..count |-> Present(rs[i].irr)])
      totalWindSpeed == SumSeq([i \in 1..count |-> Present(rs[i].wind)])
      weatherScore == calculateSolarImpact(totalCloudCover, totalPrecipitation,
                        totalIrradiance, totalTemp, totalWindSpeed, count)
      expectedEnergy == calculateExpectedEnergy(capacity, weatherScore)
  IN  [date |-> date, actualEnergy |-> actualEnergy,
       expectedHundredths |-> expectedEnergy,
       performanceRatio |-> PerformanceRatio(actualEnergy, expectedEnergy),
       weatherScore |-> weatherScore, records |-> count]

\* dailyData.reduce(... day.performanceRatio > best.ratio ...) from {'', 0}
BestDay(dailyData) ==
  LET acc[i \in 0..Len(dailyData)] ==
        IF i = 0 THEN [date |-> << >>, ratio |-> 0]
        ELSE IF dailyData[i].performanceRatio > acc[i - 1].ratio
             THEN [date |-> dailyData[i].date, ratio |-> dailyData[i].performanceRatio]
             ELSE acc[i - 1]
  IN  acc[Len(dailyData)]

\* dailyData.reduce(... day.performanceRatio < worst.ratio ...) from {'', Infinity};
\* Absent stands for the Infinity of the start value
WorstDay(dailyData) ==
  LET acc[i \in 0..Len(dailyData)] ==
        IF i = 0 THEN [date |-> << >>, ratio |-> Absent]
        ELSE IF acc[i - 1].ratio = Absent
                  \/ dailyData[i].performanceRatio < acc[i - 1].ratio
             THEN [date |-> dailyData[i].date, ratio |-> dailyData[i].performanceRatio]
             ELSE acc[i - 1]
  IN  acc[Len(dailyData)]

\* getWeatherAdjustedPerformance(solarUnitId, days) at time t (a server clock
\* in UTC): the readings from 00:00 of the day `days` days back to the end of
\* today, grouped by date
getWeatherAdjustedPerformance(us, db, solarUnitId, days, t) ==
  IF solarUnitId \notin DOMAIN us THEN [status |-> "NotFoundError"]
  ELSE
    LET startDate == 24 * ((t \div 24) - days)
        endDate == 24 * (t \div 24) + 23
        energyRecords == {r \in db : r.unit = solarUnitId
                                       /\ r.ts >= startDate /\ r.ts <= endDate}
        dates == {DateKey(r.ts) : r \in energyRecords}
        dailyData ==
          SortByDate({DailyPerformance(us[solarUnitId].capacity, d,
                         {r \in energyRecords : DateKey(r.ts) = d}) : d \in dates})
        n == Len(dailyData)
        bestDay == BestDay(dailyData)
        worstDay == WorstDay(dailyData)
        none == [date |-> << >>, ratio |-> 0]
    IN  [status |-> "ok",
         capacity |-> us[solarUnitId].capacity,
         dailyData |-> dailyData,
         avgPerformanceRatio |->
           IF n > 0
           THEN MathRound(SumSeq([i \in 1..n |-> dailyData[i].performanceRatio]), n)
           ELSE 0,
         totalActualEnergy |-> SumSeq([i \in 1..n |-> dailyData[i].actualEnergy]),
         totalExpectedHundredths |->
           SumSeq([i \in 1..n |-> dailyData[i].expectedHundredths]),
         bestDay |-> IF worstDay.ratio = Absent THEN none ELSE bestDay,
         worstDay |-> IF worstDay.ratio = Absent THEN none ELSE worstDay]

\* the query without the lower bound of the window
FindAnomaliesNoStart(store, solarUnitId, days, t) ==
  SelectSeq(store, LAMBDA a : a.unit = solarUnitId /\ a.detectedAt <= t)

\* Anomaly.find({solarUnitId, detectedAt: {$gte: startDate, $lte: endDate}}),
\* startDate = now - days (same time of day), endDate = now
FindAnomalies(store, solarUnitId, days, t) ==
  SelectSeq(store, LAMBDA a : a.unit = solarUnitId
                              /\ a.detectedAt >= t - 24 * days /\ a.detectedAt <= t)

\* Array.from(map.entries()) of a Map filled by counting `keys` in order:
\* one entry per distinct key, in the order of first occurrence
CountEntries(keys, total) ==
  LET firsts == SelectSeq([i \in 1..Len(keys) |-> i],
                          LAMBDA i : \A j \in 1..(i - 1) : keys[j] # keys[i])
  IN  [k \in 1..Len(firsts) |->
         LET count == Cardinality({i \in 1..Len(keys) : keys[i] = keys[firsts[k]]})
         IN  [key |-> keys[firsts[k]], count |-> count,
              percentage |-> IF total > 0 THEN MathRound(count * 100, total) ELSE 0]]

getAnomalyDistribution(us, store, solarUnitId, days, t) ==
  IF solarUnitId \notin DOMAIN us THEN [status |-> "NotFoundError"]
  ELSE
    LET found == FindAnomalies(store, solarUnitId, days, t)
        totalAnomalies == Len(found)
        trend == CountEntries([i \in 1..totalAnomalies |-> DateKey(found[i].detectedAt)],
                              totalAnomalies)
    IN  [status |-> "ok",
         totalAnomalies |-> totalAnomalies,
         byType |-> CountEntries([i \in 1..totalAnomalies |-> found[i].type],
                                 totalAnomalies),
         bySeverity |-> CountEntries([i \in 1..totalAnomalies |-> found[i].severity],
                                     totalAnomalies),
         byStatus |-> CountEntries([i \in 1..totalAnomalies |-> found[i].status],
                                   totalAnomalies),
         recentTrend |->
           SortByDate({[date |-> trend[k].key, count |-> trend[k].count]
                         : k \in 1..Len(trend)})]

\* 'Excellent' | 'Good' | 'Fair' | 'Poor'
RatingOf(healthScore) ==
  IF healthScore >= 85 THEN "Excellent"
  ELSE IF healthScore >= 70 THEN "Good"
  ELSE IF healthScore >= 50 THEN "Fair"
  ELSE "Poor"

\* Math.round(anomalyScore * 0.3 + performanceScore * 0.4 + uptimePercentage *
\* 0.2 + resolutionScore * 0.1) of the exact quotient num / den
HealthScore(num, den) == MathRound(num, den)

\* getSystemHealth(solarUnitId, days) at time t, days >= 1; performanceOk =
\* FALSE is a getWeatherAdjustedPerformance that throws (the default 75 stays)
getSystemHealth(us, db, store, solarUnitId, days, t, performanceOk) ==
  IF solarUnitId \notin DOMAIN us THEN [status |-> "NotFoundError"]
  ELSE
    LET found == FindAnomalies(store, solarUnitId, days, t)
        criticalCount == Len(SelectSeq(found, LAMBDA a : a.severity = "CRITICAL"))
        warningCount == Len(SelectSeq(found, LAMBDA a : a.severity = "WARNING"))
        raw == 100 - criticalCount * 10 - warningCount * 5
        anomalyScore == IF raw < 0 THEN 0 ELSE raw
        performance == getWeatherAdjustedPerformance(us, db, solarUnitId, days, t)
        performanceScore == IF performanceOk /\ performance.status = "ok"
                            THEN performance.avgPerformanceRatio ELSE 75
        daysWithCritical ==
          {DateKey(found[i].detectedAt) :
             i \in {j \in 1..Len(found) : found[j].severity = "CRITICAL"}}
        resolved == SelectSeq(found, LAMBDA a : a.status = "RESOLVED")
        \* hours from detection to resolution, summed
        totalResolutionTime ==
          SumSeq([i \in 1..Len(resolved) |->
                    IF resolved[i].resolvedAt # Absent
                    THEN resolved[i].resolvedAt - resolved[i].detectedAt ELSE 0])
        n == IF Len(resolved) > 0 THEN Len(resolved) ELSE 1
        \* resolutionScore = rn / (24 n)
        rn == IF 2400 * n - 10 * totalResolutionTime < 0 THEN 0
              ELSE 2400 * n - 10 * totalResolutionTime
        \* uptimePercentage = 100 (days - |daysWithCritical|) / days
        num == (3 * anomalyScore + 4 * performanceScore) * 24 * days * n
                 + 20 * (days - Cardinality(daysWithCritical)) * 240 * n
                 + rn * days
        den == 240 * days * n
        healthScore == HealthScore(num, den)
    IN  [status |-> "ok", healthScore |-> healthScore, rating |-> RatingOf(healthScore),
         anomalyImpact |-> anomalyScore, performanceScore |-> performanceScore,
         criticalCount |-> criticalCount, warningCount |-> warningCount,
         criticalDays |-> Cardinality(daysWithCritical)]

\* The analytics calls on a bounded family of reading stores and finding stores

AnalyticsCapacity == 5 * 1000
AnalyticsNow == 24 * (BaseDay + 19) + 15
AnalyticsDays == {1, 7}
Today == AnalyticsNow \div 24

WeatherSnapshots ==
  {[cc |-> Absent, precip |-> Absent, irr |-> Absent, temp |-> Absent, wind |-> Absent],
   [cc |-> 90, precip |-> 2, irr |-> 100, temp |-> 20, wind |-> 5],
   [cc |-> 10, precip |-> 0, irr |-> 900, temp |-> 40, wind |-> 20],
   [cc |-> 60, precip |-> 0, irr |-> 650, temp |-> 20, wind |-> 5]}

AReading(k, day, hour, energy, w) ==
  [id |-> 10 * day + k, unit |-> ProbeUnit, ts |-> 24 * day + hour, energy |-> energy,
   interval |-> 20, wc |-> "none", cc |-> w.cc, precip |-> w.precip, irr |-> w.irr,
   temp |-> w.temp, wind |-> w.wind]

DayEnergies == {0, 625, 20625, 30000}

\* the readings of one day: none, one, or two with different weather
DayPicks(day) ==
  {{}} \cup {{AReading(1, day, 12, e, w)} : e \in DayEnergies, w \in WeatherSnapshots}
       \cup {{AReading(1, day, 10, 10000, w1), AReading(2, day, 14, 10625, w2)} :
                w1 \in WeatherSnapshots, w2 \in WeatherSnapshots}

AnalyticsStores ==
  {a \cup b \cup c :
     a \in DayPicks(Today), b \in DayPicks(Today - 1),
     c \in {{}, {AReading(1, Today - 8, 12, 20625, CHOOSE w \in WeatherSnapshots : w.cc = 10)}}}

FewStores ==
  {{}, {AReading(1, Today, 12, 20625, CHOOSE w \in WeatherSnapshots : w.cc = Absent)}}

FindingDoc(unit, type, severity, status, detectedAt, resolvedAt) ==
  [unit |-> unit, type |-> type, severity |-> severity, status |-> status,
   detectedAt |-> detectedAt, resolvedAt |-> resolvedAt]

\* detected two hours ago, 20 hours ago (yesterday), or eight days ago; open,
\* or resolved 30 hours after detection
DocChoices ==
  {FindingDoc(ProbeUnit, ty, sev, st[1], AnalyticsNow - back,
              IF st[2] = Absent THEN Absent ELSE AnalyticsNow - back + st[2]) :
     ty \in {"NIGHTTIME_GENERATION", "LOW_GENERATION_CLEAR_WEATHER"},
     sev \in {"CRITICAL", "WARNING"},
     st \in {<<"OPEN", Absent>>, <<"RESOLVED", 30>>},
     back \in {2, 20, 24 * 8}}

FewDocs ==
  {FindingDoc(ProbeUnit, "NIGHTTIME_GENERATION", "CRITICAL", "OPEN", AnalyticsNow - 20, Absent),
   FindingDoc(ProbeUnit, "ZERO_GENERATION_CLEAR_SKY", "CRITICAL", "ACKNOWLEDGED",
              AnalyticsNow - 2, Absent),
   FindingDoc(ProbeUnit, "LOW_GENERATION_CLEAR_WEATHER", "WARNING", "RESOLVED",
              AnalyticsNow - 24 * 3, AnalyticsNow - 2),
   FindingDoc(ProbeUnit - 1, "NIGHTTIME_GENERATION", "CRITICAL", "OPEN", AnalyticsNow - 2, Absent)}

\* n CRITICAL findings, alternately detected today and yesterday
BulkFindings(n) ==
  [i \in 1..n |->
     FindingDoc(ProbeUnit, "NIGHTTIME_GENERATION", "CRITICAL", "OPEN",
                IF i % 2 = 0 THEN AnalyticsNow - 2 ELSE AnalyticsNow - 20, Absent)]

AnalyticsFindings ==
  {<< >>} \cup {<<a>> : a \in DocChoices} \cup {<<a, b>> : a \in DocChoices, b \in DocChoices}
    \cup {<<a, b, c>> : a \in FewDocs, b \in FewDocs, c \in FewDocs}
    \cup {BulkFindings(n) : n \in {7, 10}}

InitAnalytics ==
  /\ units = [u \in {ProbeUnit} |-> [status |-> "ACTIVE", capacity |-> AnalyticsCapacity]]
  /\ \/ readings \in AnalyticsStores /\ anomalies = << >>
     \/ readings \in FewStores /\ anomalies \in AnalyticsFindings
  /\ now = AnalyticsNow
  /\ run = [r \in Runs |-> IdleRun]
  /\ log = << >>
  /\ faults = 0
  /\ started = 0
  /\ reviews = 0
  /\ probe = NoProbe
  /\ NoPayments

CallWeatherPerformance ==
  /\ \E days \in AnalyticsDays :
       probe' = [algo |-> "performance", ok |-> TRUE, days |-> days,
                 out |-> getWeatherAdjustedPerformance(units, readings, ProbeUnit, days, now)]
  /\ UNCHANGED <<units, readings, now, anomalies, run, log, faults, started, reviews, invoices, sessions, events>>

CallAnomalyDistribution ==
  /\ \E days \in AnalyticsDays :
       probe' = [algo |-> "distribution", ok |-> TRUE, days |-> days,
                 out |-> getAnomalyDistribution(units, anomalies, ProbeUnit, days, now)]
  /\ UNCHANGED <<units, readings, now, anomalies, run, log, faults, started, reviews, invoices, sessions, events>>

CallSystemHealth ==
  /\ \E days \in AnalyticsDays, ok \in BOOLEAN :
       probe' = [algo |-> "health", ok |-> ok, days |-> days,
                 out |-> getSystemHealth(units, readings, anomalies, ProbeUnit, days, now, ok)]
  /\ UNCHANGED <<units, readings, now, anomalies, run, log, faults, started, reviews, invoices, sessions, events>>

NextAnalytics == CallWeatherPerformance \/ CallAnomalyDistribution \/ CallSystemHealth

SpecAnalytics == InitAnalytics /\ [][NextAnalytics]_vars

\* The analytics routes (api/analytics.ts): authentication, the validator of
\* the path parameter, the validator of the query, then the handler

\* req.query.days: missing, not a number, or the decimal text of an integer
RawDays ==
  {[kind |-> "absent", n |-> 0], [kind |-> "text", n |-> 0]}
    \cup {[kind |-> "int", n |-> k] : k \in {-1, 0, 1, 7, 30, 31, 90, 91}}

\* Number.parseInt(val, 10): NaN for undefined and for text without digits
ParseInt(raw) == [nan |-> raw.kind # "int", n |-> raw.n]

AnalyticsRoutes == {"performance", "distribution", "health"}
DtoDefault(route) == IF route = "distribution" THEN 30 ELSE 7
DtoMax(route) == IF route = "distribution" THEN 90 ELSE 30

\* a router that mounts the handlers without the query validators
QueryValidAlways(route, raw) == TRUE

\* z.string().optional().default(d).transform(parseInt).pipe(z.number().min(1).max(m))
QueryValid(route, raw) ==
  LET val == IF raw.kind = "absent" THEN [kind |-> "int", n |-> DtoDefault(route)] ELSE raw
      parsed == ParseInt(val)
  IN  ~parsed.nan /\ parsed.n >= 1 /\ parsed.n <= DtoMax(route)

\* const days = Number.parseInt(req.query.days as string) || default
HandlerDays(route, raw) ==
  LET parsed == ParseInt(raw)
  IN  IF parsed.nan \/ parsed.n = 0 THEN DtoDefault(route) ELSE parsed.n

\* the store queries a handled request awaits: SolarUnit.findById and one
\* find, and for the health score those of the performance call as well
StoreReads(route) == IF route = "health" THEN 4 ELSE 2

\* the outcome of a request: the validator throws before the handler runs,
\* or the handler answers with the result of its computation
Respond(route, raw, performanceOk, result) ==
  IF QueryValid(route, raw)
  THEN [algo |-> route, ok |-> performanceOk, raw |-> raw, days |-> HandlerDays(route, raw),
        reads |-> StoreReads(route), out |-> result]
  ELSE [algo |-> route, ok |-> performanceOk, raw |-> raw, days |-> HandlerDays(route, raw),
        reads |-> 0, out |-> [status |-> "ValidationError"]]

RouteFindings ==
  {<< >>} \cup {<<a>> : a \in DocChoices}
    \cup {<<a, b, c>> : a \in FewDocs, b \in FewDocs, c \in FewDocs}

InitRoutes ==
  /\ units = [u \in {ProbeUnit} |-> [status |-> "ACTIVE", capacity |-> AnalyticsCapacity]]
  /\ readings \in FewStores
  /\ anomalies \in RouteFindings
  /\ now = AnalyticsNow
  /\ run = [r \in Runs |-> IdleRun]
  /\ log = << >>
  /\ faults = 0
  /\ started = 0
  /\ reviews = 0
  /\ probe = NoProbe
  /\ NoPayments

GetWeatherPerformance ==
  /\ \E raw \in RawDays :
       probe' = Respond("performance", raw, TRUE,
                        getWeatherAdjustedPerformance(units, readings, ProbeUnit,
                                                      HandlerDays("performance", raw), now))
  /\ UNCHANGED <<units, readings, now, anomalies, run, log, faults, started, reviews, invoices, sessions, events>>

GetAnomalyDistribution ==
  /\ \E raw \in RawDays :
       probe' = Respond("distribution", raw, TRUE,
                        getAnomalyDistribution(units, anomalies, ProbeUnit,
                                               HandlerDays("distribution", raw), now))
  /\ UNCHANGED <<units, readings, now, anomalies, run, log, faults, started, reviews, invoices, sessions, events>>

GetSystemHealth ==
  /\ \E raw \in RawDays, ok \in BOOLEAN :
       probe' = Respond("health", raw, ok,
                        getSystemHealth(units, readings, anomalies, ProbeUnit,
                                        HandlerDays("health", raw), now, ok))
  /\ UNCHANGED <<units, readings, now, anomalies, run, log, faults, started, reviews, invoices, sessions, events>>

NextRoutes == GetWeatherPerformance \/ GetAnomalyDistribution \/ GetSystemHealth

SpecRoutes == InitRoutes /\ [][NextRoutes]_vars

----------------------------------------------------------------------------
(* Invoice payment (application/payment.ts): checkout sessions and the     *)
(* Stripe webhook                                                          *)

NumInvoices == 2   \* invoices
MaxSessions == 3   \* checkout sessions created in one behaviour
InvoiceIds == 1..NumInvoices

\* price.unit_amount in cents per kWh
pricePerUnit == 5

\* quantity = Math.max(1, Math.round(totalEnergyGenerated)); the total in cents
estimatedTotal(invoice) ==
  (IF invoice.totalEnergyGenerated < 1 THEN 1 ELSE invoice.totalEnergyGenerated) * pricePerUnit

\* invoices as generated: paymentStatus PENDING, no paidAt
NewInvoice(energy) ==
  [paymentStatus |-> "PENDING", paidAt |-> Absent, totalEnergyGenerated |-> energy]

InitPayment ==
  /\ units = [u \in UnitIds |-> [status |-> "ACTIVE", capacity |-> Capacity]]
  /\ readings = {}
  /\ now = RunNow
  /\ anomalies = << >>
  /\ run = [r \in Runs |-> IdleRun]
  /\ log = << >>
  /\ faults = 0
  /\ started = 0
  /\ reviews = 0
  /\ probe = NoProbe
  /\ \E energy \in {0, 5, 20} :
       invoices = [i \in InvoiceIds |-> NewInvoice(IF i = 1 THEN 20 ELSE energy)]
  /\ sessions = << >>
  /\ events = {}

\* createCheckoutSession by the owner of the invoice: a paid invoice, one
\* without billable energy and a total under 50 cents are refused with a
\* ValidationError; otherwise a session is created whose metadata names the
\* invoice.  Sessions the invoice already has are not looked at.
CreateCheckoutSession(invoiceId) ==
  /\ Len(sessions) < MaxSessions
  /\ invoices[invoiceId].paymentStatus # "PAID"
  /\ invoices[invoiceId].totalEnergyGenerated > 0
  /\ estimatedTotal(invoices[invoiceId]) >= 50
  /\ sessions' = Append(sessions, [invoiceId |-> invoiceId, status |-> "open",
                                   payment_status |-> "unpaid"])
  /\ UNCHANGED <<units, readings, now, anomalies, run, log, faults, started, reviews,
                 probe, invoices, events>>

StripeEvent(type, s, payment_status) ==
  [type |-> type, session |-> s, invoiceId |-> sessions[s].invoiceId,
   payment_status |-> payment_status]

\* Stripe: the customer completes the checkout, paid at once or with a
\* payment method that settles later (checkout.session.completed)
CustomerCompletes(s) ==
  /\ sessions[s].status = "open"
  /\ \E payment_status \in {"paid", "unpaid"} :
       /\ sessions' = [sessions EXCEPT ![s].status = "complete",
                                       ![s].payment_status = payment_status]
       /\ events' = events \cup {StripeEvent("checkout.session.completed", s, payment_status)}
  /\ UNCHANGED <<units, readings, now, anomalies, run, log, faults, started, reviews,
                 probe, invoices>>

\* Stripe: a delayed payment succeeds or fails
\* (checkout.session.async_payment_succeeded / async_payment_failed)
AsyncPaymentSettles(s) ==
  /\ sessions[s].status = "complete" /\ sessions[s].payment_status = "unpaid"
  /\ \E ok \in BOOLEAN :
       /\ sessions' = [sessions EXCEPT ![s].status = "settled",
                                       ![s].payment_status = IF ok THEN "paid" ELSE "unpaid"]
       /\ events' = events \cup
            {StripeEvent(IF ok THEN "checkout.session.async_payment_succeeded"
                         ELSE "checkout.session.async_payment_failed",
                         s, IF ok THEN "paid" ELSE "unpaid")}
  /\ UNCHANGED <<units, readings, now, anomalies, run, log, faults, started, reviews,
                 probe, invoices>>

\* the update handleStripeWebhook makes for a verified event
WebhookUpdate(event, t) ==
  IF event.type = "checkout.session.completed" /\ event.payment_status = "paid"
  THEN [invoices EXCEPT ![event.invoiceId].paymentStatus = "PAID",
                        ![event.invoiceId].paidAt = t]
  ELSE IF event.type = "checkout.session.async_payment_succeeded"
  THEN [invoices EXCEPT ![event.invoiceId].paymentStatus = "PAID",
                        ![event.invoiceId].paidAt = t]
  ELSE IF event.type = "checkout.session.async_payment_failed"
  THEN [invoices EXCEPT ![event.invoiceId].paymentStatus = "FAILED"]
  ELSE invoices

\* handleStripeWebhook: a request whose signature does not verify is answered
\* with 400 and changes nothing (Stripe delivers the event again); a verified
\* event is applied and acknowledged with 200.  Events are delivered in any
\* order.
HandleStripeWebhook(event) ==
  /\ event \in events
  /\ \E verified \in BOOLEAN :
       IF verified
       THEN /\ invoices' = WebhookUpdate(event, now)
            /\ events' = events \ {event}
       ELSE UNCHANGED <<invoices, events>>
  /\ UNCHANGED <<units, readings, now, anomalies, run, log, faults, started, reviews,
                 probe, sessions>>

NextPayment ==
  \/ \E invoiceId \in InvoiceIds : CreateCheckoutSession(invoiceId)
  \/ \E s \in 1..Len(sessions) : CustomerCompletes(s)
  \/ \E s \in 1..Len(sessions) : AsyncPaymentSettles(s)
  \/ \E event \in events : HandleStripeWebhook(event)

SpecPayment == InitPayment /\ [][NextPayment]_vars

----------------------------------------------------------------------------
(* Properties of the detection algorithms (checked under SpecDetect)       *)

\* the readings of the probe unit inside the lookback window
InWindow == {r \in readings : r.unit = ProbeUnit /\ r.ts >= now - 3600}

FindingsFor(r) == {i \in 1..Len(probe.out) : probe.out[i].recIds = <<r.id>>}

\* C8: detectNighttimeGeneration emits exactly one NIGHTTIME_GENERATION finding
\* (CRITICAL, expected 0, actual = the energy, deviation 100, period = the
\* timestamp) for each reading of the window at UTC hour >= 19 or < 6 with
\* energy > 10 Wh, and no finding for any other reading.
NightQualifies(r) == (r.ts % 24 >= 19 \/ r.ts % 24 < 6) /\ r.energy > 10

ZeroQualifies(r) == r.ts % 24 >= 10 /\ r.ts % 24 <= 14 /\ r.energy = 0

C9_ZeroGenerationExactlyOnePerReading ==
  (probe.algo = "zero" /\ probe.ok) =>
    /\ Len(probe.out) = Cardinality({r \in InWindow : ZeroQualifies(r)})
    /\ \A r \in InWindow :
         IF ZeroQualifies(r)
         THEN \E i \in 1..Len(probe.out) :
                /\ FindingsFor(r) = {i}
                /\ probe.out[i].type = "ZERO_GENERATION_CLEAR_SKY"
                /\ probe.out[i].severity = "CRITICAL"
                /\ probe.out[i].expected = 200
                /\ probe.out[i].actual = 0
                /\ probe.out[i].deviation = 100
                /\ probe.out[i].start = r.ts
                /\ probe.out[i].unit = r.unit
         ELSE FindingsFor(r) = {}

\* a reading at 14:00 without weather data was reported
C9_Witness ==
  /\ probe.algo = "zero" /\ probe.ok
  /\ Len(probe.out) = 1
  /\ \E r \in InWindow : r.ts % 24 = 14 /\ r.energy = 0 /\ r.wc = "none"

\* C10: detectEnergyExceedingThreshold emits exactly one
\* ENERGY_EXCEEDING_THRESHOLD finding (CRITICAL) for each reading of the window
\* with energy > capacity x intervalHours and none for a reading at or below
\* that maximum; expected = the maximum, actual = the energy, deviation = the
\* rounded excess percentage (capacity 1000, 2 h, 2500 Wh: deviation 25).
\* Tenths of an hour, 2 h when the reading carries no interval.
EffectiveTenths(r) == IF r.interval \in {Absent, 0} THEN 20 ELSE r.interval
Max10(r) == units[r.unit].capacity * EffectiveTenths(r)
ExceedsMax(r) == 10 * r.energy > Max10(r)
\* d = round(x) for x = 100 * (10 e - max10) / max10:  d - 1/2 <= x < d + 1/2
IsRoundedExcess(d, r) ==
  /\ (2 * d - 1) * Max10(r) <= 200 * (10 * r.energy - Max10(r))
  /\ 200 * (10 * r.energy - Max10(r)) < (2 * d + 1) * Max10(r)

C10_ThresholdExactlyOnePerReading ==
  (probe.algo = "threshold" /\ probe.ok) =>
    /\ Len(probe.out) = Cardinality({r \in InWindow : ExceedsMax(r)})
    /\ \A r \in InWindow :
         IF ExceedsMax(r)
         THEN \E i \in 1..Len(probe.out) :
                /\ FindingsFor(r) = {i}
                /\ probe.out[i].type = "ENERGY_EXCEEDING_THRESHOLD"
                /\ probe.out[i].severity = "CRITICAL"
                /\ 10 * probe.out[i].expected = Max10(r)
                /\ probe.out[i].actual = r.energy
                /\ IsRoundedExcess(probe.out[i].deviation, r)
                /\ probe.out[i].start = r.ts
                /\ ((units[r.unit].capacity = 1000 /\ EffectiveTenths(r) = 20
                       /\ r.energy = 2500) => probe.out[i].deviation = 25)
         ELSE FindingsFor(r) = {}

\* the documented scenario: 1000 W, 2 h, 2500 Wh, one finding with deviation 25
C10_Witness ==
  /\ probe.algo = "threshold" /\ probe.ok
  /\ Len(probe.out) = 1
  /\ probe.out[1].deviation = 25 /\ probe.out[1].expected = 2000
  /\ \E r \in InWindow : r.energy = 2500 /\ r.interval = 20 /\ r.ts % 24 = 10

\* C7: detectFrozenGeneration emits exactly one FROZEN_GENERATION finding
\* (WARNING) for each maximal span of at least 4 consecutive readings (ascending
\* time) with identical energy that is not made up entirely of night-hour zero
\* readings, and none otherwise, whether the span is ended by a value change or
\* by the end of the scan.
Between(a, b) == {r \in InWindow : a.ts <= r.ts /\ r.ts <= b.ts}
IsPredecessor(p, a) == p.ts < a.ts /\ ~ \E r \in InWindow : p.ts < r.ts /\ r.ts < a.ts
MaximalRuns ==
  {span \in InWindow \X InWindow :
     /\ span[1].ts <= span[2].ts
     /\ \A r \in Between(span[1], span[2]) : r.energy = span[1].energy
     /\ \A p \in InWindow : IsPredecessor(p, span[1]) => p.energy # span[1].energy
     /\ \A n \in InWindow : IsPredecessor(span[2], n) => n.energy # span[1].energy}
NightZero(r) == (r.ts % 24 >= 19 \/ r.ts % 24 < 6) /\ r.energy = 0
FrozenRuns ==
  {span \in MaximalRuns :
     /\ Cardinality(Between(span[1], span[2])) >= 4
     /\ ~ \A r \in Between(span[1], span[2]) : NightZero(r)}

C7_FrozenOnePerMaximalRun ==
  (probe.algo = "frozen" /\ probe.ok) =>
    /\ Len(probe.out) = Cardinality(FrozenRuns)
    /\ \A span \in FrozenRuns :
         \E i \in 1..Len(probe.out) :
           /\ {j \in 1..Len(probe.out) : probe.out[j].start = span[1].ts} = {i}
           /\ probe.out[i].type = "FROZEN_GENERATION"
           /\ probe.out[i].severity = "WARNING"
           /\ probe.out[i].unit = span[1].unit

\* a span of exactly 4 identical non-zero values ended by a value change, and
\* a second qualifying span that ends the scan
C7_Witness ==
  /\ probe.algo = "frozen" /\ probe.ok
  /\ Len(probe.out) = 2
  /\ \E span \in FrozenRuns :
       /\ Cardinality(Between(span[1], span[2])) = 4
       /\ span[1].energy > 0
       /\ \E n \in InWindow : IsPredecessor(span[2], n)
  /\ \E span \in FrozenRuns : ~ \E n \in InWindow : IsPredecessor(span[2], n)

\* C11: detectWeatherPerformanceMismatch looks only at readings that carry a
\* weather condition and whose UTC hour is in 6..18.  For such a reading it
\* emits exactly one HIGH_GENERATION_BAD_WEATHER finding (WARNING) iff the
\* condition is rain, or overcast with cloud cover > 80, and the energy is
\* > 500 Wh, and exactly one LOW_GENERATION_CLEAR_WEATHER finding (WARNING) iff
\* the hour is in 10..14, the condition is clear, the cloud cover is < 20 and
\* the energy is < 200 Wh; a reading under the bad-weather rule alone yields
\* that one finding and nothing else.  A cloud cover that was not recorded
\* counts as 0.
CoverOf(r) == IF r.cc = Absent THEN 0 ELSE r.cc
Considered(r) == r.wc # "none" /\ r.ts % 24 >= 6 /\ r.ts % 24 <= 18
HighQualifies(r) ==
  /\ Considered(r)
  /\ (r.wc = "rain" \/ (r.wc = "overcast" /\ CoverOf(r) > 80))
  /\ r.energy > 500
LowQualifies(r) ==
  /\ Considered(r)
  /\ r.ts % 24 >= 10 /\ r.ts % 24 <= 14
  /\ r.wc = "clear" /\ CoverOf(r) < 20
  /\ r.energy < 200
FindingsOfType(r, type) == {i \in FindingsFor(r) : probe.out[i].type = type}

C11_WeatherMismatchPerReading ==
  (probe.algo = "weather" /\ probe.ok) =>
    /\ \A i \in 1..Len(probe.out) :
         /\ probe.out[i].type \in {"HIGH_GENERATION_BAD_WEATHER",
                                   "LOW_GENERATION_CLEAR_WEATHER"}
         /\ probe.out[i].severity = "WARNING"
         /\ \E r \in InWindow :
              /\ i \in FindingsFor(r)
              /\ probe.out[i].start = r.ts /\ probe.out[i].end = r.ts
              /\ probe.out[i].actual = r.energy
              /\ probe.out[i].unit = r.unit
    /\ \A r \in InWindow :
         /\ Cardinality(FindingsOfType(r, "HIGH_GENERATION_BAD_WEATHER"))
              = (IF HighQualifies(r) THEN 1 ELSE 0)
         /\ Cardinality(FindingsOfType(r, "LOW_GENERATION_CLEAR_WEATHER"))
              = (IF LowQualifies(r) THEN 1 ELSE 0)
         /\ (HighQualifies(r) /\ ~LowQualifies(r))
              => Cardinality(FindingsFor(r)) = 1

\* a reading at 18:00 in the rain with 501 Wh was reported once
C11_Witness ==
  /\ probe.algo = "weather" /\ probe.ok
  /\ Len(probe.out) = 1
  /\ probe.out[1].type = "HIGH_GENERATION_BAD_WEATHER"
  /\ \E r \in InWindow : r.ts % 24 = 18 /\ r.wc = "rain" /\ r.energy = 501

\* C19: each FROZEN_GENERATION finding has affectedPeriod.start = the timestamp
\* of the first reading of its streak, affectedPeriod.end = the timestamp of
\* the last, energyRecordIds = the ids of every reading of the streak in order
\* and of no other reading, actualValue = the repeated energy value, and
\* deviation 100 when more than one distinct weather condition or more than
\* one distinct cloud-cover value was recorded within the streak, 50 otherwise.
ReadingOfId(id) == CHOOSE r \in InWindow : r.id = id
ConditionsIn(span) == {r.wc : r \in {x \in Between(span[1], span[2]) : x.wc # "none"}}
CoversIn(span) == {r.cc : r \in {x \in Between(span[1], span[2]) : x.cc # Absent}}

C19_FrozenFindingFields ==
  (probe.algo = "frozen" /\ probe.ok) =>
    \A i \in 1..Len(probe.out) :
       \E span \in FrozenRuns :
          LET f == probe.out[i]
              streak == Between(span[1], span[2])
          IN  /\ f.start = span[1].ts
              /\ f.end = span[2].ts
              /\ Len(f.recIds) = Cardinality(streak)
              /\ {f.recIds[k] : k \in 1..Len(f.recIds)} = {r.id : r \in streak}
              /\ \A k \in 1..(Len(f.recIds) - 1) :
                   ReadingOfId(f.recIds[k]).ts < ReadingOfId(f.recIds[k + 1]).ts
              /\ f.actual = span[1].energy
              /\ f.deviation = (IF Cardinality(ConditionsIn(span)) > 1
                                    \/ Cardinality(CoversIn(span)) > 1
                                 THEN 100 ELSE 50)

\* a streak of four readings under one condition with two cloud-cover values,
\* ended by a change of value: one finding, deviation 100
C19_Witness ==
  /\ probe.algo = "frozen" /\ probe.ok
  /\ Len(probe.out) = 1
  /\ probe.out[1].deviation = 100
  /\ Len(probe.out[1].recIds) = 4
  /\ Cardinality(InWindow) = 5
  /\ \A r \in InWindow : r.wc = "clear"
  /\ Cardinality({r.cc : r \in InWindow}) = 2

----------------------------------------------------------------------------
(* Properties of the recorder and of detection runs                        *)

SameKey(a, b) == a.unit = b.unit /\ a.type = b.type /\ a.start = b.start
Live(doc) == doc.status \in {"OPEN", "ACKNOWLEDGED"}
HoldsLiveMatch(store, f) ==
  \E i \in 1..Len(store) : SameKey(store[i], f) /\ Live(store[i])

\* the findings a call has counted as saved so far
Tally(rs) == rs.totalSaved + rs.savedCount
\* the step is one of call r's
Moves(r) == run'[r] # run[r]
\* what a call that is over has returned, if this step ended call r
Ended(r) == run[r].pc # "idle" /\ run'[r].pc = "idle" /\ Len(log') = Len(log) + 1

\* C1: saveAnomalies never inserts a detected finding when the store holds a
\* finding with the same unit, type and affected-period start whose status is
\* OPEN or ACKNOWLEDGED: the existence check discards it, the store does not
\* grow and the finding is not counted as saved.
C1_DuplicateDiscarded ==
  [][\A r \in Runs :
       (/\ run[r].pc = "check"
        /\ HoldsLiveMatch(anomalies, CurrentAnomaly(r))
        /\ Moves(r))
       => /\ anomalies' = anomalies
          /\ run'[r].pc # "create"
          /\ IF Ended(r)
             THEN log'[Len(log')].anomaliesSaved = Tally(run[r])
             ELSE Tally(run'[r]) = Tally(run[r])]_vars

\* a second call over night readings has returned: every finding it detected
\* matched an acknowledged or open finding and none was saved
C1_Witness ==
  /\ Len(log) = 2 /\ faults = 0
  /\ log[2].status = "returned"
  /\ log[2].anomaliesDetected > 0 /\ log[2].anomaliesSaved = 0
  /\ \A rd \in readings : rd.energy = 50
  /\ Len(anomalies) = log[1].anomaliesSaved
  /\ \E i \in 1..Len(anomalies) : anomalies[i].status = "ACKNOWLEDGED"

\* C2: for every finding type the algorithms emit, a detected finding with no
\* matching OPEN or ACKNOWLEDGED finding is persisted by saveAnomalies as a new
\* OPEN finding and counted as saved (whenever the store itself does not fail).
C2_UnmatchedFindingSaved ==
  [][\A r \in Runs :
       (run[r].pc = "create" /\ Moves(r) /\ faults' = faults)
       => /\ Len(anomalies') = Len(anomalies) + 1
          /\ SameKey(anomalies'[Len(anomalies')], CurrentAnomaly(r))
          /\ anomalies'[Len(anomalies')].status = "OPEN"
          /\ IF Ended(r)
             THEN log'[Len(log')].anomaliesSaved = Tally(run[r]) + 1
             ELSE Tally(run'[r]) = Tally(run[r]) + 1]_vars

\* C3: with detection runs that do not overlap, interleaved with
\* acknowledgeAnomaly and resolveAnomaly, at most one finding with status OPEN
\* or ACKNOWLEDGED exists per (unit, type, affected-period start).
C3_AtMostOneLivePerKey ==
  \A i, j \in 1..Len(anomalies) :
     (i # j /\ SameKey(anomalies[i], anomalies[j]))
       => ~(Live(anomalies[i]) /\ Live(anomalies[j]))

\* C4: two detection runs in sequence with the readings, the units and the
\* findings' statuses unchanged (no review operation, no store failure): the
\* second run reports anomaliesSaved = 0 and adds no finding to the store.
C4_SecondRunSavesNothing ==
  (reviews = 0 /\ faults = 0) =>
    \A k \in 2..Len(log) :
       /\ log[k].status = "returned"
       /\ log[k].anomaliesSaved = 0
       /\ log[k].storeAfter = log[k].storeBefore
       /\ log[k].storeBefore = log[k - 1].storeAfter

\* the second of two quiet runs detected findings (a frozen streak among
\* them, seen through a window that moved on by an hour) and saved none, the
\* first run having saved at least one
C4_Witness ==
  /\ reviews = 0 /\ faults = 0 /\ Len(log) = 2
  /\ log[1].anomaliesSaved > 0
  /\ log[2].anomaliesDetected > 1 /\ log[2].anomaliesSaved = 0
  /\ now > RunNow
  /\ \E rd \in readings : rd.energy = 300 /\ rd.ts < now - 3600

\* C5: a store read that throws while one unit is scanned does not abort the
\* run: the call returns the aggregate, unitsProcessed counts every active
\* unit, no exception reaches the caller, and the findings of every other
\* active unit are detected and saved.
ActiveUnits == {u \in UnitIds : units[u].status = "ACTIVE"}
AllOk == [k \in Algorithms |-> TRUE]
FindingsOf(u) == detectAnomalies(units, readings, u, now, AllOk)
RECURSIVE SumOver(_, _)
SumOver(F(_), S) ==
  IF S = {} THEN 0 ELSE LET x == CHOOSE y \in S : TRUE IN F(x) + SumOver(F, S \ {x})

C6_InsertNotGuarded ==
  [][\A r \in Runs :
       (/\ run[r].pc = "create" /\ Moves(r) /\ faults' = faults
        /\ CurrentAnomaly(r).type \in AnomalyTypeEnum)
       => /\ Len(anomalies') = Len(anomalies) + 1
          /\ SameKey(anomalies'[Len(anomalies')], CurrentAnomaly(r))]_vars

\* ... and an interleaving leaves two OPEN findings with the same key: both
\* runs passed the check before either inserted
C6_Witness ==
  \E i, j \in 1..Len(anomalies) :
     /\ i # j
     /\ SameKey(anomalies[i], anomalies[j])
     /\ anomalies[i].status = "OPEN" /\ anomalies[j].status = "OPEN"

\* C12: a detection run creates findings only for units whose status is ACTIVE
\* when the run lists the units: a unit with status INACTIVE or MAINTENANCE is
\* never in the run's list, never scanned, and never receives a finding,
\* whatever its readings.
IsActive(u) == units[u].status = "ACTIVE"

C13_AggregateCounts ==
  \A k \in 1..Len(log) :
     log[k].status = "returned" =>
       /\ log[k].unitsProcessed = Cardinality(ActiveUnits)
       /\ log[k].anomaliesSaved = log[k].storeAfter - log[k].storeBefore
       /\ log[k].anomaliesSaved <= log[k].anomaliesDetected
       /\ (log[k].faulted = {} /\ now = RunNow) =>
            log[k].anomaliesDetected =
              SumOver(LAMBDA u : Len(FindingsOf(u)), ActiveUnits)

\* a run over two active units returned 2 detected, 1 saved: the finding of
\* one unit was inserted, the other unit's was not
C13_Witness ==
  /\ Len(log) = 1 /\ log[1].status = "returned"
  /\ log[1].faulted = {} /\ now = RunNow
  /\ log[1].unitsProcessed = NumUnits
  /\ log[1].anomaliesDetected = NumUnits
  /\ log[1].anomaliesSaved = NumUnits - 1
  /\ Len(anomalies) = NumUnits - 1

----------------------------------------------------------------------------
(* Properties of the analytics (checked under SpecAnalytics)               *)

\* C14: getSystemHealth returns a healthScore within 0..100, rated Excellent
\* iff healthScore >= 85, Good iff 70 <= healthScore < 85, Fair iff
\* 50 <= healthScore < 70, Poor otherwise, for every unit, findings, readings
\* and window length days >= 1.
C14_HealthScoreInRangeAndRated ==
  (probe.algo = "health" /\ probe.out.status = "ok") =>
    /\ probe.out.healthScore >= 0 /\ probe.out.healthScore <= 100
    /\ probe.out.rating = "Excellent" <=> probe.out.healthScore >= 85
    /\ probe.out.rating = "Good"
         <=> (probe.out.healthScore >= 70 /\ probe.out.healthScore < 85)
    /\ probe.out.rating = "Fair"
         <=> (probe.out.healthScore >= 50 /\ probe.out.healthScore < 70)
    /\ probe.out.rating = "Poor" <=> probe.out.healthScore < 50

\* C15: in getWeatherAdjustedPerformance each day's expectedEnergy is
\* capacity(kW) x 5.5 x (weatherScore / 100) kWh and performanceRatio is
\* round(actualEnergy / expectedEnergy x 100) with both energies in the same
\* unit (0 when the expected energy is 0): capacity 5000 W and weatherScore 100
\* give 27.5 kWh, and a day whose readings total 20625 Wh has ratio 75.
C15_ExpectedEnergyAndRatio ==
  (probe.algo = "performance" /\ probe.out.status = "ok") =>
    \A i \in 1..Len(probe.out.dailyData) :
       LET day == probe.out.dailyData[i]
       IN  /\ day.expectedHundredths
                = MathRound(probe.out.capacity * 55 * day.weatherScore, 10000)
           /\ day.performanceRatio
                = (IF day.expectedHundredths = 0 THEN 0
                   ELSE MathRound(day.actualEnergy * 10, day.expectedHundredths))
           /\ (probe.out.capacity = 5000 /\ day.weatherScore = 100)
                => /\ day.expectedHundredths = 2750
                   /\ day.actualEnergy = 20625 => day.performanceRatio = 75

\* C16: getAnomalyDistribution over the findings of the unit detected inside
\* the window: in each grouping (by type, by severity, by status) the counts
\* sum to totalAnomalies and each percentage is round(count / total x 100)
\* (0 when the total is 0); recentTrend has one entry per UTC date with at
\* least one finding, in strictly ascending date order, the counts summing to
\* totalAnomalies.
InScope ==
  {i \in 1..Len(anomalies) :
     /\ anomalies[i].unit = ProbeUnit
     /\ anomalies[i].detectedAt >= now - 24 * probe.days
     /\ anomalies[i].detectedAt <= now}
IsPercentage(p, count, total) ==
  IF total = 0 THEN p = 0
  ELSE (2 * p - 1) * total <= 200 * count /\ 200 * count < (2 * p + 1) * total
\* the entries are the distinct values of the field with their numbers of findings
GroupingOk(entries, field) ==
  /\ SumSeq([k \in 1..Len(entries) |-> entries[k].count]) = Cardinality(InScope)
  /\ {entries[k].key : k \in 1..Len(entries)} = {anomalies[i][field] : i \in InScope}
  /\ \A k \in 1..Len(entries) :
       /\ entries[k].count
            = Cardinality({i \in InScope : anomalies[i][field] = entries[k].key})
       /\ IsPercentage(entries[k].percentage, entries[k].count, Cardinality(InScope))
       /\ \A l \in 1..Len(entries) : l # k => entries[l].key # entries[k].key
DayOf(i) == anomalies[i].detectedAt \div 24

C16_DistributionConsistent ==
  (probe.algo = "distribution" /\ probe.out.status = "ok") =>
    /\ probe.out.totalAnomalies = Cardinality(InScope)
    /\ GroupingOk(probe.out.byType, "type")
    /\ GroupingOk(probe.out.bySeverity, "severity")
    /\ GroupingOk(probe.out.byStatus, "status")
    /\ LET trend == probe.out.recentTrend
       IN  /\ Len(trend) = Cardinality({DayOf(i) : i \in InScope})
           /\ SumSeq([k \in 1..Len(trend) |-> trend[k].count]) = Cardinality(InScope)
           /\ \A k \in 1..Len(trend) :
                \E i \in InScope :
                   /\ trend[k].date = DateKey(anomalies[i].detectedAt)
                   /\ trend[k].count = Cardinality({j \in InScope : DayOf(j) = DayOf(i)})
                   /\ trend[k].count >= 1
                   /\ \A l \in (k + 1)..Len(trend) :
                        \E j \in InScope :
                           /\ trend[l].date = DateKey(anomalies[j].detectedAt)
                           /\ DayOf(i) < DayOf(j)

\* three findings of the unit in a 7-day window, on three dates, stored newest
\* first: three trend entries, and thirds reported as 33 per cent
C16_Witness ==
  /\ probe.algo = "distribution" /\ probe.days = 7
  /\ Len(anomalies) = 3
  /\ probe.out.totalAnomalies = 3
  /\ Len(probe.out.recentTrend) = 3
  /\ DayOf(1) > DayOf(2) /\ DayOf(2) > DayOf(3)
  /\ Len(probe.out.byType) = 3
  /\ probe.out.byType[1].percentage = 33

----------------------------------------------------------------------------
(* Detection runs over a finding store that already holds a finding         *)

\* the finding detectNighttimeGeneration reports for the "night" readings of
\* unit u, with the same period, with an earlier period, or of another type
SeedVariants == {"same", "otherStart", "otherType"}
SeedFinding(u, variant) ==
  LET f == PointFinding(u, "NIGHTTIME_GENERATION", "CRITICAL",
                        StoredReading(u, 1, 22, 50, "none", Absent), 0, 50, 100)
  IN  CASE variant = "same" -> f
        [] variant = "otherStart" -> [f EXCEPT !.start = @ - 24, !.end = @ - 24]
        [] variant = "otherType" -> [f EXCEPT !.type = "LOW_GENERATION_CLEAR_WEATHER"]

\* anomalySchema.status
AnomalyStatusEnum == {"OPEN", "ACKNOWLEDGED", "RESOLVED", "FALSE_POSITIVE"}

\* a stored document of any status the schema admits, detected a day earlier
SeededStores ==
  {<<[NewDocument(SeedFinding(u, v), RunNow - 24) EXCEPT !.status = st]>> :
     u \in UnitIds, v \in SeedVariants, st \in AnomalyStatusEnum}

InitSeeded ==
  /\ units = [u \in UnitIds |-> [status |-> "ACTIVE", capacity |-> Capacity]]
  /\ \E name \in {"night", "quiet"} :
       readings = UNION {Profile(u, IF u = 1 THEN name ELSE "night") : u \in UnitIds}
  /\ now = RunNow
  /\ anomalies \in SeededStores
  /\ run = [r \in Runs |-> IdleRun]
  /\ log = << >>
  /\ faults = 0
  /\ started = 0
  /\ reviews = 0
  /\ probe = NoProbe
  /\ NoPayments

NextSeeded ==
  \/ \E r \in Runs : StartRun(r, TRUE)
  \/ \E r \in Runs : RunStep(r)

SpecSeeded == InitSeeded /\ [][NextSeeded]_vars

\* Two readings of one unit with one timestamp (the collection has no unique
\* key on the timestamp): unit 1 holds such a pair, the other units a quiet
\* reading
TwinNames == {"night", "clearzero", "over"}
TwinProfile(u, name) ==
  CASE name = "night"     -> {StoredReading(u, 1, 22, 50, "none", Absent),
                              StoredReading(u, 2, 22, 60, "none", Absent)}
    [] name = "clearzero" -> {StoredReading(u, 1, 12, 0, "clear", 10),
                              StoredReading(u, 2, 12, 0, "clear", 10)}
    [] name = "over"      -> {StoredReading(u, 1, 12, 2500, "none", Absent),
                              StoredReading(u, 2, 12, 2600, "none", Absent)}

InitTwins ==
  /\ units = [u \in UnitIds |-> [status |-> "ACTIVE", capacity |-> Capacity]]
  /\ \E name \in TwinNames :
       readings = UNION {IF u = 1 THEN TwinProfile(u, name) ELSE Profile(u, "quiet")
                           : u \in UnitIds}
  /\ now = RunNow
  /\ anomalies = << >>
  /\ run = [r \in Runs |-> IdleRun]
  /\ log = << >>
  /\ faults = 0
  /\ started = 0
  /\ reviews = 0
  /\ probe = NoProbe
  /\ NoPayments

SpecTwins == InitTwins /\ [][NextSeeded]_vars

\* the same with findings resolved between and during the runs
NextSeededReview ==
  \/ \E r \in Runs : StartRun(r, TRUE)
  \/ \E r \in Runs : RunStep(r)
  \/ \E id \in 1..Len(anomalies) : ResolveAnomaly(id)

SpecSeededReview == InitSeeded /\ [][NextSeededReview]_vars

----------------------------------------------------------------------------
(* Properties of the lifecycle and of deduplication                        *)

\* C17: a finding's status only moves forward along OPEN -> ACKNOWLEDGED ->
\* RESOLVED: under any sequence of acknowledgeAnomaly and resolveAnomaly calls
\* a finding whose status is RESOLVED never returns to ACKNOWLEDGED or OPEN.
C17_ResolvedNeverReopens ==
  [][\A i \in 1..Len(anomalies) :
       anomalies[i].status = "RESOLVED"
         => anomalies'[i].status \notin {"ACKNOWLEDGED", "OPEN"}]_vars

\* C18: a detected finding is treated as a duplicate and not saved whenever a
\* stored finding has the same solar unit, the same type and the same
\* affected period and a status other than RESOLVED (OPEN, ACKNOWLEDGED or
\* FALSE_POSITIVE).
HoldsUnresolvedMatch(store, f) ==
  \E i \in 1..Len(store) :
     /\ store[i].unit = f.unit /\ store[i].type = f.type
     /\ store[i].start = f.start /\ store[i].end = f.end
     /\ store[i].status # "RESOLVED"

C18_UnresolvedMatchNotSaved ==
  [][\A r \in Runs :
       (/\ run[r].pc = "check"
        /\ HoldsUnresolvedMatch(anomalies, CurrentAnomaly(r))
        /\ Moves(r))
       => /\ anomalies' = anomalies
          /\ run'[r].pc # "create"]_vars

\* C27: a stored finding whose status is RESOLVED or FALSE_POSITIVE does not
\* suppress re-detection: while the reading stays in the lookback window, the
\* next run over the unchanged readings inserts a new OPEN finding with the
\* same unit, type and affected-period start, so the findings of one key grow
\* by one each time the open finding is resolved between runs.
HoldsClosedMatch(store, f) ==
  \E i \in 1..Len(store) :
     SameKey(store[i], f) /\ store[i].status \in {"RESOLVED", "FALSE_POSITIVE"}
OnlyClosedMatches(r) ==
  /\ HoldsClosedMatch(anomalies, CurrentAnomaly(r))
  /\ ~HoldsLiveMatch(anomalies, CurrentAnomaly(r))
  /\ Moves(r) /\ faults' = faults

FrozenAtFirstRun(u) == detectFrozenGeneration(readings, u, RunNow, TRUE)
SameStreak(f, g) == f.unit = g.unit /\ f.type = g.type /\ f.end = g.end

C28_FrozenKeyStable ==
  /\ \A r \in Runs : \A i \in 1..Len(run[r].detected) :
       LET f == run[r].detected[i]
       IN  f.type = "FROZEN_GENERATION" =>
             \A j \in 1..Len(FrozenAtFirstRun(f.unit)) :
                SameStreak(FrozenAtFirstRun(f.unit)[j], f)
                  => FrozenAtFirstRun(f.unit)[j].start = f.start
  /\ \A i, j \in 1..Len(anomalies) :
       (i # j /\ anomalies[i].type = "FROZEN_GENERATION" /\ Live(anomalies[i])
          /\ SameStreak(anomalies[i], anomalies[j]))
         => FALSE

\* C29: when two readings of one unit carry the same timestamp and both
\* trigger the same per-reading rule, a single run counts two detected
\* findings but persists only one of them, the second being deduplicated
\* against the first insert of the same run; the stored finding references
\* the first reading only.
TwinFindings == FindingsOf(1)
FirstOfKey(i) == \A j \in 1..(i - 1) : ~SameKey(TwinFindings[j], TwinFindings[i])
HasTwin(i) == \E j \in (i + 1)..Len(TwinFindings) : SameKey(TwinFindings[j], TwinFindings[i])
StoredOfKey(f) == {d \in 1..Len(anomalies) : SameKey(anomalies[d], f)}

C29_TwinReadingsOneFindingStored ==
  (faults = 0 /\ Len(log) >= 1) =>
     /\ log[1].status = "returned"
     /\ log[1].anomaliesDetected = Len(TwinFindings)
     /\ \A i \in 1..Len(TwinFindings) :
          (FirstOfKey(i) /\ HasTwin(i)) =>
             /\ Cardinality(StoredOfKey(TwinFindings[i])) = 1
             /\ \A d \in StoredOfKey(TwinFindings[i]) :
                  anomalies[d].recIds = TwinFindings[i].recIds

----------------------------------------------------------------------------
(* Properties of the handling of store failures                            *)

\* C20: when a read of the reading store throws at any point while a unit is
\* being scanned in a run, that unit contributes zero findings to the run:
\* none of its findings is counted in anomaliesDetected or saved by the run,
\* even if the reads of other algorithms for the same unit succeeded.
SavedBy(entry) == {anomalies[j] : j \in (entry.storeBefore + 1)..entry.storeAfter}

C20_FaultedUnitContributesNothing ==
  /\ \A r \in Runs :
       (run[r].pc \in {"check", "create"} /\ CurrentUnit(r) \in run[r].faulted)
          => run[r].detected = << >>
  /\ \A k \in 1..Len(log) :
       log[k].status = "returned" =>
          /\ \A doc \in SavedBy(log[k]) : doc.unit \notin log[k].faulted
          /\ (now = RunNow) =>
                log[k].anomaliesDetected <=
                  SumOver(LAMBDA u : Len(FindingsOf(u)), ActiveUnits \ log[k].faulted)

\* C21: when a detection run fails as a whole (listing the active units
\* throws), runAnomalyDetectionForAllUnits hands no aggregate to its caller:
\* the error is rethrown, nothing has been saved, the caller catches the
\* error and stays ready, so later runs still take place.
ListingThrew == started' = started + 1 /\ faults' = faults + 1
LastEntry == log'[Len(log')]

C21_FailedRunRethrowsAndCallerSurvives ==
  [][ListingThrew =>
       /\ Len(log') = Len(log) + 1
       /\ LastEntry.status = "thrown"
       /\ anomalies' = anomalies
       /\ \A r \in Runs : run'[r].pc # "down"
       /\ \E r \in Runs : run[r].pc = "idle" /\ run'[r] = IdleRun]_vars

\* C21 as stated: the failed run returns a best-effort partial aggregate to
\* its caller, and the caller stays ready for later runs
C21_FailedRunReturnsAggregate ==
  [][ListingThrew =>
       /\ Len(log') = Len(log) + 1
       /\ LastEntry.status = "returned"
       /\ \A r \in Runs : run'[r].pc # "down"]_vars

\* the listing of a first run threw; a later run returned and saved a finding
C21_Witness ==
  /\ Len(log) = 2
  /\ log[1].status = "thrown" /\ log[1].storeAfter = log[1].storeBefore
  /\ log[2].status = "returned" /\ log[2].anomaliesSaved >= 1
  /\ \A r \in Runs : run[r].pc = "idle"

\* C22: there is no retry inside a run, and a unit whose scan failed in one
\* run is retried by the next run: once the store has recovered and the
\* scheduler keeps firing, every finding of that unit's unchanged readings is
\* eventually persisted, exactly once, by a later run.
LiveMatches(f) ==
  {j \in 1..Len(anomalies) :
     SameKey(anomalies[j], f) /\ anomalies[j].status \in {"OPEN", "ACKNOWLEDGED"}}
Persisted(u) ==
  \A i \in 1..Len(FindingsOf(u)) : Cardinality(LiveMatches(FindingsOf(u)[i])) = 1
FailedInFirstRun(u) ==
  /\ Len(log) = 1 /\ started = 1
  /\ u \in log[1].faulted
  /\ faults = MaxFaults

----------------------------------------------------------------------------
(* Properties of the performance analytics                                 *)

\* the readings of the unit from the start of the day `days` days ago up to
\* the end of today
PerformanceWindow ==
  {r \in readings : /\ r.unit = ProbeUnit
                    /\ r.ts >= 24 * (Today - probe.days)
                    /\ r.ts <= 24 * Today + 23}

\* C24: in getSystemHealth the performance factor equals the weather-adjusted
\* average performance ratio when performance data is available and is 75
\* when it is unavailable; a unit with no readings in the window gets
\* performanceScore 75.
C24_PerformanceFactorOrDefault ==
  (probe.algo = "health" /\ probe.out.status = "ok") =>
     LET performance ==
           getWeatherAdjustedPerformance(units, readings, ProbeUnit, probe.days, now)
     IN  probe.out.performanceScore
           = (IF probe.ok /\ PerformanceWindow # {}
              THEN performance.avgPerformanceRatio ELSE 75)

\* C25: in getWeatherAdjustedPerformance the weather inputs of a day are the
\* means of the weather fields present on the day's readings; a field absent
\* from all of the day's readings is replaced by its neutral default (cloud
\* cover 50, precipitation 0, temperature 25, irradiance 500, wind 10), not
\* by 0, and readings lacking a field do not lower the mean of the field.
ReadingsOfDate(date) == {r \in PerformanceWindow : DateKey(r.ts) = date}
\* <<sum, number>> of the values present, or <<default, 1>> when there is none
MeanOfPresent(records, field, default) ==
  LET have == {r \in records : r[field] # Absent}
  IN  IF have = {} THEN <<default, 1>>
      ELSE <<SumOver(LAMBDA r : r[field], have), Cardinality(have)>>
ScoreOfMeans(records) ==
  LET cc == MeanOfPresent(records, "cc", 50)
      precip == MeanOfPresent(records, "precip", 0)
      temp == MeanOfPresent(records, "temp", 25)
      irr == MeanOfPresent(records, "irr", 500)
      wind == MeanOfPresent(records, "wind", 10)
      common == cc[2] * precip[2] * temp[2] * irr[2] * wind[2]
  IN  calculateSolarImpact(cc[1] * (common \div cc[2]), precip[1] * (common \div precip[2]),
                           irr[1] * (common \div irr[2]), temp[1] * (common \div temp[2]),
                           wind[1] * (common \div wind[2]), common)

C25_WeatherMeansOfPresentFields ==
  (probe.algo = "performance" /\ probe.out.status = "ok") =>
     \A i \in 1..Len(probe.out.dailyData) :
        probe.out.dailyData[i].weatherScore
          = ScoreOfMeans(ReadingsOfDate(probe.out.dailyData[i].date))

\* C26: whenever the window contains at least one day with readings, the
\* summary names as bestDay a day of dailyData whose performanceRatio is the
\* maximum and as worstDay a day whose performanceRatio is the minimum, both
\* with a non-empty date, also when every day's ratio is 0.
IsDayWithRatio(named, dailyData) ==
  /\ named.date # << >>
  /\ \E i \in 1..Len(dailyData) :
       dailyData[i].date = named.date /\ dailyData[i].performanceRatio = named.ratio

C26_BestAndWorstDay ==
  (probe.algo = "performance" /\ probe.out.status = "ok" /\ PerformanceWindow # {}) =>
     LET dailyData == probe.out.dailyData
     IN  /\ IsDayWithRatio(probe.out.bestDay, dailyData)
         /\ IsDayWithRatio(probe.out.worstDay, dailyData)
         /\ \A i \in 1..Len(dailyData) :
              /\ dailyData[i].performanceRatio <= probe.out.bestDay.ratio
              /\ dailyData[i].performanceRatio >= probe.out.worstDay.ratio

----------------------------------------------------------------------------
(* Properties of the analytics routes                                      *)

----------------------------------------------------------------------------
(* Properties of the invoice payment                                       *)

\* C30: under any sequence and ordering of the Stripe webhook events handled
\* by handleStripeWebhook (checkout.session.completed, async_payment_succeeded,
\* async_payment_failed, possibly from several checkout sessions of one
\* invoice), an invoice whose paymentStatus has become PAID never changes to
\* FAILED or PENDING afterwards.
C30_PaidStaysPaid ==
  [][\A i \in DOMAIN invoices :
       invoices[i].paymentStatus = "PAID"
         => invoices'[i].paymentStatus \notin {"FAILED", "PENDING"}]_vars

====
